---- MODULE Spec2Model ----
(***************************************************************************)
(* Model of the index resolution and point extraction functions of         *)
(* xcube/api.py: get_coord_indexes, get_cube_point_indexes,                 *)
(* get_cube_values and get_cube_point_values, and of the tile function of  *)
(* xcube/core/tile.py: get_ml_dataset_tile with its image cache.            *)
(*                                                                         *)
(* Numbers.  Coordinates, cell edges and query values are integers.  The   *)
(* float64 axes of the model have even center-to-center deltas, so that    *)
(* 0.5 * delta is an integer as well.  The result of np.interp is a        *)
(* rational number, carried as a pair <<p, q>> with q > 0 in lowest terms. *)
(* Floating point rounding is not modelled.                                *)
(***************************************************************************)
EXTENDS Integers, Sequences, FiniteSets, TLC

VARIABLES
    dataset,    \* the xr.Dataset or the MultiLevelDataset the functions are called with
    call,       \* the arguments of the last call
    ret,        \* what the last call returned or raised
    image_cache,  \* the image_cache passed to get_ml_dataset_tile
    history,    \* the completed calls of get_ml_dataset_tile, oldest first
    threads     \* the calls of get_ml_dataset_tile in progress, by thread

vars == <<dataset, call, ret, image_cache, history, threads>>

\* the state of the tile function
tile_vars == <<image_cache, history, threads>>

----------------------------------------------------------------------------
(* Bounds of the model *)

MaxSize == 3        \* largest axis size
MaxQueries == 2     \* longest coord_values vector passed to get_coord_indexes

----------------------------------------------------------------------------
(* Sequences and rationals *)

Reverse(s) == [i \in 1..Len(s) |-> s[Len(s) + 1 - i]]

Range(s) == {s[i] : i \in 1..Len(s)}

Abs(a) == IF a < 0 THEN -a ELSE a

RECURSIVE GCD(_, _)
GCD(a, b) == IF b = 0 THEN a ELSE GCD(b, a % b)

\* the rational p/q (q # 0) in lowest terms with a positive denominator
Rat(p, q) ==
    LET g == GCD(Abs(p), Abs(q))
        s == IF q < 0 THEN -1 ELSE 1
    IN  <<(s * p) \div g, (s * q) \div g>>

RatOfInt(i) == <<i, 1>>

RatSub(r, i) == Rat(r[1] - i * r[2], r[2])

\* ndarray.astype(np.int64) on a float64 value: truncation toward zero
AsInt64(r) == IF r[1] >= 0 THEN r[1] \div r[2] ELSE -((-r[1]) \div r[2])

----------------------------------------------------------------------------
(* Return values *)

Returned(v) == [status |-> "ok", exc |-> "", msg |-> "", names |-> <<>>,
                sizes |-> <<>>, value |-> v]

Raised(exc, msg, names, sizes) ==
    [status |-> "raised", exc |-> exc, msg |-> msg, names |-> names,
     sizes |-> sizes, value |-> <<>>]

NoCall == [op |-> "none"]

NoRet == Returned(<<>>)

\* no image cache, no call of get_ml_dataset_tile
NoTiles ==
    /\ image_cache = [present |-> FALSE, entries |-> <<>>]
    /\ history = <<>>
    /\ threads = <<>>

----------------------------------------------------------------------------
(* get_coord_indexes *)

\* _get_bounds_var: the bounds variable of a 1-D coordinate variable, when
\* it exists with the same dtype and the shape (size, 2)
HasBoundsVar(coord_var) ==
    /\ coord_var.bounds.present
    /\ coord_var.bounds.dtype = coord_var.dtype
    /\ Len(coord_var.bounds.values) = Len(coord_var.values)

\* (a - b) < 0; datetime64 values have been cast to np.uint64, whose
\* differences are never negative
IsNegativeDiff(dtype, a, b) ==
    IF dtype = "datetime64" THEN FALSE ELSE (a - b) < 0

\* coord_bounds[::-1, ::-1]
ReverseBounds(b) == [i \in 1..Len(b) |-> <<b[Len(b) + 1 - i][2], b[Len(b) + 1 - i][1]>>]

\* the edges taken from the wrong column: coords[0:-1] = coord_bounds[:, 1]
CoordsFromUpperBounds(b) ==
    [i \in 1..(Len(b) + 1) |-> IF i <= Len(b) THEN b[i][2] ELSE b[Len(b)][2]]

\* coords[0:-1] = coord_bounds[:, 0]; coords[-1] = coord_bounds[-1, 1]
CoordsFromBounds(b) ==
    [i \in 1..(Len(b) + 1) |-> IF i <= Len(b) THEN b[i][1] ELSE b[Len(b)][2]]

\* deltas[0:-2] = np.diff(center_coords); deltas[-2] = deltas[-3];
\* deltas[-1] = deltas[-3]
Deltas(c, n1) ==
    [i \in 1..(n1 + 1) |-> IF i <= n1 - 1 THEN c[i + 1] - c[i] ELSE c[n1] - c[n1 - 1]]

\* deltas // 2 for integer deltas, 0.5 * deltas otherwise (the float64
\* deltas of the model are even)
HalfDelta(dtype, d) == d \div 2

\* coords[0:-1] = center_coords; coords[-1] = coords[-2] + deltas[-1];
\* coords -= half of deltas
CoordsMinusHalfDeltas(dtype, c, n1, deltas) ==
    [i \in 1..(n1 + 1) |->
        (IF i <= n1 THEN c[i] ELSE c[n1] + deltas[n1 + 1])
        - HalfDelta(dtype, deltas[i])]

CoordsFromCenters(dtype, c, n1) == CoordsMinusHalfDeltas(dtype, c, n1, Deltas(c, n1))

\* for (i = 1; i < len && key >= arr[i]; ++i); return i - 1;
\* with the 0-based i of the C code
RECURSIVE LinearSearch(_, _, _, _)
LinearSearch(key, arr, len, i) ==
    IF i < len /\ key >= arr[i + 1]
    THEN LinearSearch(key, arr, len, i + 1)
    ELSE i - 1

\* numpy's binary_search_with_guess for len <= 8: the linear search.
\* The result is the 0-based j, -1 below arr[0] and len above arr[-1].
SearchSorted(key, arr, len) ==
    IF key > arr[len] THEN len
    ELSE IF key < arr[1] THEN -1
    ELSE LinearSearch(key, arr, len, 1)

\* the interpolated value at x, found in the interval j of xp, with
\* fp = np.linspace(0.0, n1, n2)
InterpAt(j, x, xp, lenxp) ==
    IF j = -1 THEN RatOfInt(-1)
    ELSE IF j = lenxp THEN RatOfInt(-1)
    ELSE IF j = lenxp - 1 THEN RatOfInt(j)
    ELSE IF xp[j + 1] = x THEN RatOfInt(j)
    ELSE Rat(j * (xp[j + 2] - xp[j + 1]) + (x - xp[j + 1]), xp[j + 2] - xp[j + 1])

\* np.interp(x, xp, fp, left=-1, right=-1) with len(xp) = lenxp
Interp(x, xp, lenxp) == InterpAt(SearchSorted(x, xp, lenxp), x, xp, lenxp)

\* indexes = result.astype(np.int64); indexes[indexes >= n1] = n1 - 1
IndexOf(result, n1) ==
    IF AsInt64(result) >= n1 THEN n1 - 1 ELSE AsInt64(result)

\* fractions = result - indexes; fractions[upper_bound_hit] = 1.0
FractionOf(result, n1) ==
    IF AsInt64(result) >= n1 THEN RatOfInt(1) ELSE RatSub(result, AsInt64(result))

\* indexes[::-1], fractions[::-1] when is_reversed
Oriented(s, is_reversed) == IF is_reversed THEN Reverse(s) ELSE s

\* interpolate, truncate, clamp the upper bound hit, and reverse the output
\* arrays of a reversed axis
ResolveIndexes(coords, n1, coord_values, ret_fractions, is_reversed) ==
    Returned([indexes   |-> Oriented([k \in 1..Len(coord_values) |->
                                IndexOf(Interp(coord_values[k], coords, n1 + 1), n1)],
                              is_reversed),
              fractions |-> IF ret_fractions
                            THEN Oriented([k \in 1..Len(coord_values) |->
                                     FractionOf(Interp(coord_values[k], coords, n1 + 1), n1)],
                                   is_reversed)
                            ELSE <<>>])

get_coord_indexes(ds, coord_var_name, coord_values, ret_fractions) ==
    LET coord_var == ds.coords[coord_var_name]
        n1 == Len(coord_var.values)
    IN  IF HasBoundsVar(coord_var)
        THEN LET b == coord_var.bounds.values
                 is_reversed == IsNegativeDiff(coord_var.dtype, b[1][2], b[1][1])
                 coord_bounds == IF is_reversed THEN ReverseBounds(b) ELSE b
             IN  ResolveIndexes(CoordsFromBounds(coord_bounds), n1,
                                coord_values, ret_fractions, is_reversed)
        ELSE IF n1 > 1
        THEN LET c == coord_var.values
                 is_reversed == IsNegativeDiff(coord_var.dtype, c[n1], c[1])
                 center_coords == IF is_reversed THEN Reverse(c) ELSE c
             IN  IF coord_var.dtype = "datetime64"
                 THEN \* coords -= 0.5 * deltas on a np.uint64 array
                      Raised("TypeError", "cannot cast float64 to uint64", <<>>, <<>>)
                 ELSE ResolveIndexes(CoordsFromCenters(coord_var.dtype, center_coords, n1),
                                     n1, coord_values, ret_fractions, is_reversed)
        ELSE Raised("ValueError", "cannot determine cell boundaries",
                    <<coord_var_name>>, <<n1>>)

----------------------------------------------------------------------------
(* assert_cube and verify_cube *)

\* Dataset.dims: the dimensions of all variables of the dataset
DatasetDims(ds) ==
    DOMAIN ds.coords
    \cup UNION {Range(ds.data_vars[j].dims) : j \in 1..Len(ds.data_vars)}

\* _check_coord_var followed by the checks of _check_time
CheckTime(ds, name) ==
    IF name \notin DOMAIN ds.coords
    THEN <<"missing coordinate variable">>
    ELSE IF Len(ds.coords[name].values) = 0
    THEN <<"coordinate variable must not be empty">>
    ELSE (IF ds.coords[name].dtype # "datetime64"
          THEN <<"type of coordinate variable must be datetime64">> ELSE <<>>)
         \o (IF \E i \in 1..(Len(ds.coords[name].values) - 1) :
                   ds.coords[name].values[i + 1] - ds.coords[name].values[i] <= 0
             THEN <<"values of coordinate variable must be monotonic increasing">>
             ELSE <<>>)

\* _check_coord_var followed by the range check of _check_lon_or_lat (the
\* integers of the model are finite)
CheckLonOrLat(ds, name, min_value, max_value) ==
    IF name \notin DOMAIN ds.coords
    THEN <<"missing coordinate variable">>
    ELSE IF Len(ds.coords[name].values) = 0
    THEN <<"coordinate variable must not be empty">>
    ELSE IF \E i \in 1..Len(ds.coords[name].values) :
               \/ ds.coords[name].values[i] < min_value
               \/ ds.coords[name].values[i] > max_value
    THEN <<"values of coordinate variable must be in the range">>
    ELSE <<>>

\* _check_data_variables (no variable of the model is chunked)
CheckDataVariables(ds) ==
    LET bad_dims(j) ==
            LET dims == ds.data_vars[j].dims
            IN  \/ Len(dims) < 3
                \/ dims[1] # "time"
                \/ dims[Len(dims) - 1] # "lat"
                \/ dims[Len(dims)] # "lon"
    IN  (IF \E j \in 1..Len(ds.data_vars) : bad_dims(j)
         THEN <<"dimensions of data variable must be ('time', ..., 'lat', 'lon')">>
         ELSE <<>>)
        \o (IF \E j \in 2..Len(ds.data_vars) : ds.data_vars[j].dims # ds.data_vars[1].dims
            THEN <<"dimensions of all data variables must be same">>
            ELSE <<>>)

\* verify_cube: the report, or the KeyError of dataset.dims[name] in
\* _check_dim for a missing dimension
verify_cube(ds) ==
    IF \E name \in {"time", "lat", "lon"} : name \notin DatasetDims(ds)
    THEN Raised("KeyError", "dims", <<>>, <<>>)
    ELSE Returned(CheckTime(ds, "time")
                  \o CheckLonOrLat(ds, "lat", -90, 90)
                  \o CheckLonOrLat(ds, "lon", -180, 180)
                  \o CheckDataVariables(ds))

\* assert_cube: raises when the report is not empty
assert_cube(ds) ==
    LET report == verify_cube(ds)
    IN  IF report.status = "raised" THEN report
        ELSE IF report.value # <<>>
        THEN Raised("ValueError", "is not a valid data cube", <<>>, <<>>)
        ELSE NoRet

----------------------------------------------------------------------------
(* get_cube_point_indexes *)

\* _get_cube_data_var_dims: the dims of the first data variable
HasDataVars(cube) == Len(cube.data_vars) > 0

CubeDataVarDims(cube) == cube.data_vars[1].dims

\* pd.DataFrame(points) for a mapping of column names to arrays: pandas
\* refuses arrays of different lengths
DataFrameOf(points) ==
    IF \E a \in DOMAIN points : \E b \in DOMAIN points : Len(points[a]) # Len(points[b])
    THEN Raised("ValueError", "arrays must all be same length", <<>>, <<>>)
    ELSE Returned(points)

\* the mapping is not consulted
ColNameUnmapped(dim_name_mapping, dim_name) == dim_name

\* col_name = dim_name_mapping[dim_name] if dim_name_mapping and dim_name in
\* dim_name_mapping else dim_name
ColName(dim_name_mapping, dim_name) ==
    IF dim_name \in DOMAIN dim_name_mapping
    THEN dim_name_mapping[dim_name] ELSE dim_name

\* the loop over dim_names from its i-th iteration on; indexes holds what the
\* earlier iterations appended
RECURSIVE PointIndexesLoop(_, _, _, _, _, _)
PointIndexesLoop(cube, points, dim_name_mapping, dim_names, i, indexes) ==
    IF i > Len(dim_names) THEN Returned(indexes)
    ELSE LET dim_name == dim_names[i]
             col_name == ColName(dim_name_mapping, dim_name)
             first_col_name == ColName(dim_name_mapping, dim_names[1])
         IN  IF dim_name \notin DOMAIN cube.coords
             THEN Raised("ValueError", "missing coordinate variable for dimension",
                         <<dim_name>>, <<>>)
             ELSE IF col_name \notin DOMAIN points
             THEN Raised("ValueError", "column not found in points", <<col_name>>, <<>>)
             ELSE IF i > 1 /\ Len(points[first_col_name]) # Len(points[col_name])
             THEN Raised("ValueError",
                         "number of point coordinates must be same for all columns",
                         <<first_col_name, col_name>>,
                         <<Len(points[first_col_name]), Len(points[col_name])>>)
             ELSE LET r == get_coord_indexes(cube, dim_name, points[col_name], FALSE)
                  IN  IF r.status = "raised" THEN r
                      ELSE PointIndexesLoop(cube, points, dim_name_mapping, dim_names,
                                            i + 1, indexes @@ (dim_name :> r.value.indexes))

get_cube_point_indexes(cube, points, dim_name_mapping, cube_asserted) ==
    LET asserted == IF cube_asserted THEN NoRet ELSE assert_cube(cube)
        frame == DataFrameOf(points)
    IN  IF asserted.status = "raised" THEN asserted
        ELSE IF frame.status = "raised" THEN frame
        ELSE IF ~HasDataVars(cube)
        THEN Raised("ValueError", "cube dataset is empty", <<>>, <<>>)
        ELSE PointIndexesLoop(cube, frame.value, dim_name_mapping,
                              CubeDataVarDims(cube), 1, <<>>)

----------------------------------------------------------------------------
(* get_cube_values and get_cube_point_values *)

IsIntegerDType(dtype) == dtype \in {"int32", "int64"}

\* a value of a column of the result: a number, or not-a-number
Value(v) == <<v>>

NaN == <<>>

\* tuple(row_indexes[i]) with row_indexes = np.stack(index_arrays, axis=-1)
RowIndex(indexes, dims, i) == [d \in 1..Len(dims) |-> indexes[dims[d]][i]]

\* the loop over the rows for one variable: np.nan cannot be stored in an
\* array of an integer dtype
VarValues(var, indexes, dims, num_rows) ==
    IF /\ IsIntegerDType(var.dtype)
       /\ \E i \in 1..num_rows : -1 \in Range(RowIndex(indexes, dims, i))
    THEN Raised("ValueError", "cannot convert float NaN to integer", <<>>, <<>>)
    ELSE Returned([i \in 1..num_rows |->
                      IF -1 \in Range(RowIndex(indexes, dims, i)) THEN NaN
                      ELSE Value(var.data[RowIndex(indexes, dims, i)])])

get_cube_values(cube, indexes, include_indexes, cube_asserted) ==
    LET asserted == IF cube_asserted THEN NoRet ELSE assert_cube(cube)
        dims == CubeDataVarDims(cube)
        num_rows == Len(indexes[dims[1]])
        var_values == [j \in 1..Len(cube.data_vars) |->
                          VarValues(cube.data_vars[j], indexes, dims, num_rows)]
    IN  IF asserted.status = "raised" THEN asserted
        ELSE IF ~HasDataVars(cube)
        THEN \* len(dims) with dims = None
             Raised("TypeError", "object of type 'NoneType' has no len()", <<>>, <<>>)
        ELSE IF \E d \in 1..Len(dims) : dims[d] \notin DOMAIN indexes
        THEN Raised("ValueError", "missing dimension in indexes",
                    <<dims[CHOOSE d \in 1..Len(dims) :
                              /\ dims[d] \notin DOMAIN indexes
                              /\ \A c \in 1..(d - 1) : dims[c] \in DOMAIN indexes]>>,
                    <<>>)
        ELSE IF \E j \in 1..Len(cube.data_vars) : var_values[j].status = "raised"
        THEN Raised("ValueError", "cannot convert float NaN to integer", <<>>, <<>>)
        ELSE IF include_indexes
        THEN \* pd.concat(values, indexes): the first argument is a DataFrame
             Raised("TypeError", "first argument must be an iterable of pandas objects",
                    <<>>, <<>>)
        ELSE Returned([name \in {cube.data_vars[j].name : j \in 1..Len(cube.data_vars)} |->
                          var_values[CHOOSE j \in 1..Len(cube.data_vars) :
                                         cube.data_vars[j].name = name].value])

get_cube_point_values(cube, points, include_indexes, cube_asserted) ==
    LET asserted == IF cube_asserted THEN NoRet ELSE assert_cube(cube)
        indexes == get_cube_point_indexes(cube, points, <<>>, TRUE)
    IN  IF asserted.status = "raised" THEN asserted
        ELSE IF indexes.status = "raised" THEN indexes
        ELSE get_cube_values(cube, indexes.value, include_indexes, TRUE)

----------------------------------------------------------------------------
(* The datasets the functions are called with.  A coordinate variable has  *)
(* a dtype, its values (the cell centers, in storage order) and, when       *)
(* present, a bounds variable of shape (size, 2), as new_cube builds them.  *)

CenterDeltas == {2, 4}

DTypes == {"float64", "int64", "datetime64"}

\* strictly increasing cell centers
RECURSIVE CenterSeqs(_)
CenterSeqs(n) ==
    IF n = 1 THEN {<<3>>}
    ELSE {Append(c, c[n - 1] + d) : c \in CenterSeqs(n - 1), d \in CenterDeltas}

\* the n + 1 edges of the contiguous cells around the centers c: half way
\* between neighbouring centers, the outer cells as wide as their neighbours
CellEdges(c) ==
    LET n == Len(c)
    IN  IF n = 1 THEN <<c[1] - 1, c[1] + 1>>
        ELSE [i \in 1..(n + 1) |->
                 IF i = 1 THEN c[1] - ((c[2] - c[1]) \div 2)
                 ELSE IF i = n + 1 THEN c[n] + ((c[n] - c[n - 1]) \div 2)
                 ELSE (c[i - 1] + c[i]) \div 2]

AllCenterSeqs == UNION {CenterSeqs(n) : n \in 1..MaxSize}

NoBounds == [present |-> FALSE, dtype |-> "", values |-> <<>>]

\* a coordinate variable with centers c; stored in decreasing order when
\* reversed, with its bounds variable when with_bounds
CoordVar(dtype, c, with_bounds, reversed) ==
    LET e == CellEdges(c)
        b == [i \in 1..Len(c) |-> <<e[i], e[i + 1]>>]
    IN  [dtype  |-> dtype,
         values |-> IF reversed THEN Reverse(c) ELSE c,
         bounds |-> IF with_bounds
                    THEN [present |-> TRUE, dtype |-> dtype,
                          values |-> IF reversed THEN ReverseBounds(b) ELSE b]
                    ELSE NoBounds]

\* date/time axes are stored in increasing order; the dtype of an axis with
\* bounds enters the computation for date/time axes only
CoordVars ==
    {CoordVar(p[1], p[2], p[3], p[4]) :
        p \in {q \in DTypes \X AllCenterSeqs \X BOOLEAN \X BOOLEAN :
                    /\ q[1] = "datetime64" => ~q[4]
                    /\ q[1] = "int64" => ~q[3]}}

\* the cell centers of a coordinate variable in increasing order
Centers(coord_var) ==
    LET c == coord_var.values
    IN  IF c[1] > c[Len(c)] THEN Reverse(c) ELSE c

\* query values: the cell edges, the cell centers, the midpoints of the
\* cells, one value below the first edge and one above the last edge
QueryValues(coord_var) ==
    LET c == Centers(coord_var)
        e == CellEdges(c)
    IN  Range(e) \cup Range(c)
        \cup {(e[i] + e[i + 1]) \div 2 : i \in {j \in 1..Len(c) : (e[j] + e[j + 1]) % 2 = 0}}
        \cup {e[1] - 1, e[Len(e)] + 1}

QueryVectors(coord_var) ==
    UNION {[1..m -> QueryValues(coord_var)] : m \in 0..MaxQueries}

----------------------------------------------------------------------------
(* Calls of get_coord_indexes on a dataset with one coordinate variable *)

InitAxis ==
    /\ dataset \in {[coords |-> [d \in {"x"} |-> cv], data_vars |-> <<>>] :
                        cv \in CoordVars}
    /\ call = NoCall
    /\ ret = NoRet
    /\ NoTiles

CallGetCoordIndexes ==
    /\ call = NoCall
    /\ \E name \in DOMAIN dataset.coords :
       \E q \in QueryVectors(dataset.coords[name]), f \in BOOLEAN :
           /\ call' = [op |-> "get_coord_indexes", coord_var_name |-> name,
                       coord_values |-> q, ret_fractions |-> f]
           /\ ret' = get_coord_indexes(dataset, name, q, f)
           /\ UNCHANGED <<dataset, tile_vars>>

NextAxis == CallGetCoordIndexes

SpecAxis == InitAxis /\ [][NextAxis]_vars

----------------------------------------------------------------------------
(* Cubes: datasets with the dimensions time, lat and lon, coordinate        *)
(* variables for them and one or two data variables on (time, lat, lon).    *)
(* The time and lon axes have two cells; the lat axis is any float64 axis.  *)

CubeDims == <<"time", "lat", "lon">>

\* a data variable whose array holds a different number in every cell
DataVar(name, dtype, offset, coords) ==
    [name |-> name, dtype |-> dtype, dims |-> CubeDims,
     data |-> [idx \in (0..(Len(coords.time.values) - 1))
                       \X (0..(Len(coords.lat.values) - 1))
                       \X (0..(Len(coords.lon.values) - 1)) |->
                  offset + 100 * idx[1] + 10 * idx[2] + idx[3]]]

Cube(coords, with_int_var) ==
    [coords |-> coords,
     data_vars |-> IF with_int_var
                   THEN <<DataVar("A", "float64", 0, coords),
                          DataVar("B", "int32", 1000, coords)>>
                   ELSE <<DataVar("A", "float64", 0, coords)>>]

Cubes ==
    {Cube([time |-> CoordVar("datetime64", <<3, 5>>, p[1], FALSE),
           lat  |-> p[2],
           lon  |-> CoordVar("float64", <<3, 5>>, FALSE, FALSE)], p[3]) :
        p \in BOOLEAN \X {cv \in CoordVars : cv.dtype = "float64"} \X BOOLEAN}

\* tables of points: the time and lon columns hold cell centers, the lat
\* column cell centers or a value below the first edge
PointTables(cube) ==
    UNION {{[time |-> t, lat |-> y, lon |-> x] :
               t \in [1..m -> Range(cube.coords.time.values)],
               y \in [1..m -> Range(cube.coords.lat.values)
                              \cup {CellEdges(Centers(cube.coords.lat))[1] - 1}],
               x \in [1..m -> Range(cube.coords.lon.values)]} :
           m \in 0..MaxQueries}

\* tables of indexes, -1 included
IndexTables(cube) ==
    UNION {{[time |-> t, lat |-> y, lon |-> x] :
               t \in [1..m -> (-1)..(Len(cube.coords.time.values) - 1)],
               y \in [1..m -> (-1)..(Len(cube.coords.lat.values) - 1)],
               x \in [1..m -> 0..(Len(cube.coords.lon.values) - 1)]} :
           m \in 0..MaxQueries}

\* points as a caller may pass them: any of the columns time, lat, lon and x
\* may be there, and the columns may differ in length
ColumnNames == {"time", "lat", "lon", "x"}

RawPoints ==
    UNION {[cols -> {[i \in 1..m |-> 3] : m \in (MaxQueries - 1)..MaxQueries}] :
           cols \in SUBSET ColumnNames}

DimNameMappings == {<<>>, "lon" :> "x"}

InitCube ==
    /\ dataset \in Cubes
    /\ call = NoCall
    /\ ret = NoRet
    /\ NoTiles

PointIndexesCall(points, dim_name_mapping) ==
    /\ call' = [op |-> "get_cube_point_indexes", points |-> points,
                dim_name_mapping |-> dim_name_mapping, cube_asserted |-> FALSE]
    /\ ret' = get_cube_point_indexes(dataset, points, dim_name_mapping, FALSE)
    /\ UNCHANGED <<dataset, tile_vars>>

CallGetCubePointIndexes ==
    /\ call = NoCall
    /\ \E points \in PointTables(dataset) : PointIndexesCall(points, <<>>)

CallGetCubePointIndexesOfRawPoints ==
    /\ call = NoCall
    /\ \E points \in RawPoints, m \in DimNameMappings : PointIndexesCall(points, m)

CallGetCubeValues ==
    /\ call = NoCall
    /\ \E indexes \in IndexTables(dataset), include_indexes \in BOOLEAN :
           /\ call' = [op |-> "get_cube_values", indexes |-> indexes,
                       include_indexes |-> include_indexes, cube_asserted |-> FALSE]
           /\ ret' = get_cube_values(dataset, indexes, include_indexes, FALSE)
           /\ UNCHANGED <<dataset, tile_vars>>

CallGetCubePointValues ==
    /\ call = NoCall
    /\ \E points \in PointTables(dataset), include_indexes \in BOOLEAN :
           /\ call' = [op |-> "get_cube_point_values", points |-> points,
                       include_indexes |-> include_indexes, cube_asserted |-> FALSE]
           /\ ret' = get_cube_point_values(dataset, points, include_indexes, FALSE)
           /\ UNCHANGED <<dataset, tile_vars>>

NextCube ==
    \/ CallGetCubePointIndexes
    \/ CallGetCubeValues
    \/ CallGetCubePointValues

SpecCube == InitCube /\ [][NextCube]_vars

NextPoints == CallGetCubePointIndexesOfRawPoints

SpecPoints == InitCube /\ [][NextPoints]_vars

----------------------------------------------------------------------------
(* Properties of get_coord_indexes, checked under SpecAxis *)

IsCoordCall == call.op = "get_coord_indexes"

CalledVar == dataset.coords[call.coord_var_name]

\* the bounds variable holds contiguous cells in increasing order
IncreasingContiguousBounds(cv) ==
    /\ HasBoundsVar(cv)
    /\ \A i \in 1..Len(cv.bounds.values) : cv.bounds.values[i][1] < cv.bounds.values[i][2]
    /\ \A i \in 1..(Len(cv.bounds.values) - 1) :
           cv.bounds.values[i][2] = cv.bounds.values[i + 1][1]

\* the axis is stored in decreasing order
StoredDecreasing(cv) ==
    \/ Len(cv.values) > 1 /\ cv.values[1] > cv.values[Len(cv.values)]
    \/ HasBoundsVar(cv) /\ cv.bounds.values[1][1] > cv.bounds.values[1][2]

\* the same cells in the opposite storage order
ReversedStorage(cv) ==
    [dtype  |-> cv.dtype,
     values |-> Reverse(cv.values),
     bounds |-> IF cv.bounds.present
                THEN [present |-> TRUE, dtype |-> cv.bounds.dtype,
                      values |-> ReverseBounds(cv.bounds.values)]
                ELSE cv.bounds]

\* the edges of the cells of an axis in increasing order: the explicit
\* bounds, or else the edges reconstructed from the centers
EdgesOf(cv) ==
    IF HasBoundsVar(cv)
    THEN CoordsFromBounds(IF StoredDecreasing(cv) THEN ReverseBounds(cv.bounds.values)
                          ELSE cv.bounds.values)
    ELSE CoordsFromCenters(cv.dtype, Centers(cv), Len(cv.values))

FirstEdge(cv) == EdgesOf(cv)[1]

FinalUpperEdge(cv) == EdgesOf(cv)[Len(cv.values) + 1]

\* C1: on an axis stored in increasing order with contiguous bounds every
\* query inside cell i resolves to index i; the lower edge of a cell has
\* fraction 0.0, the midpoint of a cell has fraction 0.5.
C1_CellOfQuery ==
    (IsCoordCall /\ IncreasingContiguousBounds(CalledVar)) =>
        /\ ret.status = "ok"
        /\ \A k \in 1..Len(call.coord_values) : \A i \in 1..Len(CalledVar.values) :
              LET q  == call.coord_values[k]
                  lo == CalledVar.bounds.values[i][1]
                  hi == CalledVar.bounds.values[i][2]
              IN  (lo <= q /\ q < hi) =>
                      /\ ret.value.indexes[k] = i - 1
                      /\ call.ret_fractions =>
                            /\ (q = lo => ret.value.fractions[k] = <<0, 1>>)
                            /\ (2 * q = lo + hi => ret.value.fractions[k] = <<1, 2>>)

\* a call with fractions on such an axis whose first query is the midpoint of
\* a cell after the first and whose second query is the lower edge of the
\* last cell
C1_Witness ==
    /\ IsCoordCall
    /\ IncreasingContiguousBounds(CalledVar)
    /\ call.ret_fractions
    /\ Len(CalledVar.values) = MaxSize
    /\ Len(call.coord_values) = 2
    /\ ret.status = "ok"
    /\ ret.value.indexes[1] >= 1
    /\ ret.value.fractions[1] = <<1, 2>>
    /\ ret.value.indexes[2] = MaxSize - 1
    /\ ret.value.fractions[2] = <<0, 1>>
    /\ call.coord_values[2] = CalledVar.bounds.values[MaxSize][1]

\* C2: every returned index is -1 or lies in [0, axis_size); every returned
\* fraction lies in [0, 1] and is 1.0 exactly when the query equals the final
\* upper edge of the axis, and then the index is axis_size - 1.
C2_IndexAndFractionRange ==
    (IsCoordCall /\ ret.status = "ok") =>
        \A k \in 1..Len(call.coord_values) :
            /\ ret.value.indexes[k] \in (-1)..(Len(CalledVar.values) - 1)
            /\ call.ret_fractions =>
                  /\ 0 <= ret.value.fractions[k][1]
                  /\ ret.value.fractions[k][1] <= ret.value.fractions[k][2]
                  /\ (ret.value.fractions[k] = <<1, 1>>)
                        <=> (call.coord_values[k] = FinalUpperEdge(CalledVar))
                  /\ (ret.value.fractions[k] = <<1, 1>>)
                        => ret.value.indexes[k] = Len(CalledVar.values) - 1

\* C3: a query below the first edge or above the last edge resolves to -1,
\* and the queries of the same call inside the covered range are resolved.
C3_OutOfRangeUnresolved ==
    (IsCoordCall /\ ret.status = "ok") =>
        \A k \in 1..Len(call.coord_values) :
            LET q == call.coord_values[k]
            IN  IF q < FirstEdge(CalledVar) \/ q > FinalUpperEdge(CalledVar)
                THEN ret.value.indexes[k] = -1
                ELSE ret.value.indexes[k] # -1

\* C4: for an axis stored in decreasing order every output position holds
\* the index that the same call returns for the axis stored in increasing
\* order.
C4_StorageOrderIrrelevant ==
    (IsCoordCall /\ StoredDecreasing(CalledVar) /\ ret.status = "ok") =>
        ret.value.indexes =
            get_coord_indexes(
                [dataset EXCEPT !.coords[call.coord_var_name] = ReversedStorage(CalledVar)],
                call.coord_var_name, call.coord_values, call.ret_fractions).value.indexes

----------------------------------------------------------------------------
(* Properties of the cube functions, checked under SpecCube *)

VarNames == {dataset.data_vars[j].name : j \in 1..Len(dataset.data_vars)}

VarNamed(name) ==
    dataset.data_vars[CHOOSE j \in 1..Len(dataset.data_vars) :
                          dataset.data_vars[j].name = name]

NumRows(table) == Len(table[CubeDims[1]])

\* row r of a table as a tuple in the order of the cube's dimensions
RowOf(table, r) == [d \in 1..Len(CubeDims) |-> table[CubeDims[d]][r]]

\* every coordinate of the table is a cell center of its axis
IsCenterTable(points) ==
    \A d \in 1..Len(CubeDims) : \A r \in 1..NumRows(points) :
        points[CubeDims[d]][r] \in Range(dataset.coords[CubeDims[d]].values)

\* the 0-based position of the cell center v in the coordinate variable
IndexOfCenter(cv, v) == (CHOOSE i \in 1..Len(cv.values) : cv.values[i] = v) - 1

\* C5: what get_cube_point_values returns at points built from the cube's
\* own cell centers is, for every data variable, the value stored at the
\* index tuple of those centers.
C5_CenterRoundTrip ==
    (/\ call.op = "get_cube_point_values"
     /\ ~call.include_indexes
     /\ IsCenterTable(call.points)
     /\ ret.status = "ok") =>
        \A name \in VarNames : \A r \in 1..NumRows(call.points) :
              ret.value[name][r] =
                  Value(VarNamed(name).data[
                      [d \in 1..Len(CubeDims) |->
                          IndexOfCenter(dataset.coords[CubeDims[d]],
                                        call.points[CubeDims[d]][r])]])

\* C6: get_cube_values gives not-a-number for every data variable in a row
\* whose index tuple holds -1, and otherwise the value stored at the index
\* tuple.
C6_ValuesAtIndexes ==
    (call.op = "get_cube_values" /\ ~call.include_indexes) =>
        /\ ret.status = "ok"
        /\ \A name \in VarNames : \A r \in 1..NumRows(call.indexes) :
              ret.value[name][r] =
                  IF -1 \in Range(RowOf(call.indexes, r)) THEN NaN
                  ELSE Value(VarNamed(name).data[RowOf(call.indexes, r)])

\* C7: get_cube_point_indexes returns one row per point, and row r holds for
\* every axis the index resolved for the coordinate in row r of points.
C7_RowOrderKept ==
    (call.op = "get_cube_point_indexes" /\ ret.status = "ok") =>
        \A d \in 1..Len(CubeDims) :
            /\ Len(ret.value[CubeDims[d]]) = NumRows(call.points)
            /\ \A r \in 1..NumRows(call.points) :
                  ret.value[CubeDims[d]][r] =
                      get_coord_indexes(dataset, CubeDims[d],
                                        <<call.points[CubeDims[d]][r]>>,
                                        FALSE).value.indexes[1]

\* what the last call returns without include_indexes
PlainValues ==
    IF call.op = "get_cube_values"
    THEN get_cube_values(dataset, call.indexes, FALSE, call.cube_asserted)
    ELSE get_cube_point_values(dataset, call.points, FALSE, call.cube_asserted)

\* the indexes the last call gathers the values at
GatheredIndexes ==
    IF call.op = "get_cube_values" THEN call.indexes
    ELSE get_cube_point_indexes(dataset, call.points, <<>>, TRUE).value

\* C8: with include_indexes the call completes whenever it completes
\* without, and returns the same value columns plus the index column of
\* every axis.
C8_IndexesIncluded ==
    (/\ call.op \in {"get_cube_values", "get_cube_point_values"}
     /\ call.include_indexes
     /\ PlainValues.status = "ok") =>
        /\ ret.status = "ok"
        /\ DOMAIN ret.value = VarNames \cup Range(CubeDims)
        /\ \A name \in VarNames : ret.value[name] = PlainValues.value[name]
        /\ \A d \in 1..Len(CubeDims) :
              ret.value[CubeDims[d]] = GatheredIndexes[CubeDims[d]]

----------------------------------------------------------------------------
(* Properties of get_cube_point_indexes on raw points, checked under       *)
(* SpecPoints                                                               *)

\* the column looked up for a dimension
LookedUpColumn(dim_name) ==
    IF dim_name \in DOMAIN call.dim_name_mapping
    THEN call.dim_name_mapping[dim_name] ELSE dim_name

MissingDims == {d \in 1..Len(CubeDims) : LookedUpColumn(CubeDims[d]) \notin DOMAIN call.points}

FirstMissingDim == CHOOSE d \in MissingDims : \A e \in MissingDims : d <= e

SameLengthColumns ==
    \A a \in DOMAIN call.points : \A b \in DOMAIN call.points :
        Len(call.points[a]) = Len(call.points[b])

\* the axes before position d have their columns and resolve them
ResolvedBefore(d) ==
    \A e \in 1..(d - 1) :
        get_coord_indexes(dataset, CubeDims[e], call.points[LookedUpColumn(CubeDims[e])],
                          FALSE).status = "ok"

\* C9 as stated: when the column of an axis is absent from points (and
\* nothing before that axis fails), the call fails with a ValueError that
\* names that axis.
C9_MissingColumnNamesAxis ==
    (/\ call.op = "get_cube_point_indexes"
     /\ MissingDims # {}
     /\ SameLengthColumns
     /\ ResolvedBefore(FirstMissingDim)) =>
        /\ ret.status = "raised"
        /\ ret.exc = "ValueError"
        /\ CubeDims[FirstMissingDim] \in Range(ret.names)

\* C9 as amended: when the column of an axis is absent from points, the call
\* fails and returns no table; when points converts to a table and the axes
\* before the first such axis resolve, the failure is the ValueError "column
\* not found in points" that names the column looked up for that axis.
C9_MissingColumnRaises ==
    (call.op = "get_cube_point_indexes" /\ MissingDims # {}) =>
        /\ ret.status = "raised"
        /\ ret.value = <<>>
        /\ (SameLengthColumns /\ ResolvedBefore(FirstMissingDim)) =>
              /\ ret.exc = "ValueError"
              /\ ret.msg = "column not found in points"
              /\ ret.names = <<LookedUpColumn(CubeDims[FirstMissingDim])>>

\* the lon axis is mapped to the column x, which points does not have, while
\* it has a column lon; the time and lat columns have been resolved
C9_Witness ==
    /\ call.op = "get_cube_point_indexes"
    /\ call.dim_name_mapping = ("lon" :> "x")
    /\ DOMAIN call.points = {"time", "lat", "lon"}
    /\ SameLengthColumns
    /\ FirstMissingDim = Len(CubeDims)
    /\ ResolvedBefore(Len(CubeDims))
    /\ ret.status = "raised"
    /\ ret.names = <<"x">>

\* C10: when the column of an axis differs in length from the first column,
\* the call fails with the length mismatch ValueError that names both columns
\* and gives both lengths.
C10_LengthMismatchNamesColumns ==
    (/\ call.op = "get_cube_point_indexes"
     /\ MissingDims = {}
     /\ \E d \in 2..Len(CubeDims) :
           Len(call.points[LookedUpColumn(CubeDims[d])])
               # Len(call.points[LookedUpColumn(CubeDims[1])])) =>
        /\ ret.status = "raised"
        /\ ret.exc = "ValueError"
        /\ ret.msg = "number of point coordinates must be same for all columns"
        /\ \E d \in 2..Len(CubeDims) :
              /\ ret.names = <<LookedUpColumn(CubeDims[1]), LookedUpColumn(CubeDims[d])>>
              /\ ret.sizes = <<Len(call.points[LookedUpColumn(CubeDims[1])]),
                               Len(call.points[LookedUpColumn(CubeDims[d])])>>
              /\ ret.sizes[1] # ret.sizes[2]

----------------------------------------------------------------------------
(* Axes of size 1 and 2, checked under SpecAxis *)

\* C11: on an axis of size 1 without a usable bounds variable the call fails
\* with the ValueError "cannot determine cell boundaries" and returns no
\* indices; an axis of size 1 with bounds and an axis of size 2 without bounds
\* are resolved without error.
C11_SizeOneNeedsBounds ==
    IsCoordCall =>
        /\ (Len(CalledVar.values) = 1 /\ ~HasBoundsVar(CalledVar)) =>
              /\ ret.status = "raised"
              /\ ret.exc = "ValueError"
              /\ ret.msg = "cannot determine cell boundaries"
              /\ ret.value = <<>>
        /\ (Len(CalledVar.values) = 1 /\ HasBoundsVar(CalledVar)) =>
              /\ ret.status = "ok"
              /\ Len(ret.value.indexes) = Len(call.coord_values)
        /\ (Len(CalledVar.values) = 2 /\ ~HasBoundsVar(CalledVar)) =>
              /\ ret.status = "ok"
              /\ Len(ret.value.indexes) = Len(call.coord_values)

----------------------------------------------------------------------------
(* get_ml_dataset_tile (xcube/core/tile.py).  A 2-D array is a row of      *)
(* pixels, one pixel for each tile column.                                  *)

\* the values of cmap_vmin and cmap_vmax: None (the default), NaN, a number
None == [kind |-> "None", v |-> 0]

FloatNaN == [kind |-> "nan", v |-> 0]

Float(v) == [kind |-> "float", v |-> v]

\* str() of None, of NaN and of a float with an integral value
StrOf(a) ==
    IF a.kind = "None" THEN "None"
    ELSE IF a.kind = "nan" THEN "nan"
    ELSE ToString(a.v) \o ".0"

\* sep.join(parts)
RECURSIVE Join(_, _)
Join(sep, parts) ==
    IF parts = <<>> THEN ""
    ELSE IF Len(parts) = 1 THEN parts[1]
    ELSE parts[1] \o sep \o Join(sep, Tail(parts))

\* hex(id(ml_dataset)); the addresses of the model are below 10
Hex(n) == "0x" \o ToString(n)

\* f'{dim_name}={dim_value}' for the items of labels, in the order of the dict
LabelStrs(labels) ==
    [i \in 1..Len(labels) |-> labels[i][1] \o "=" \o ToString(labels[i][2])]

\* the identity without the colour range
ImageIdWithoutRange(ml_dataset, z, var_name, cmap_cbar, cmap_vmin, cmap_vmax, labels) ==
    Join("-", <<Hex(ml_dataset.id), ToString(z), var_name, cmap_cbar>>
              \o LabelStrs(labels))

\* ds_id = hex(id(ml_dataset)); image_id = '-'.join(map(str, [ds_id, z,
\* var_name, cmap_cbar, cmap_vmin, cmap_vmax] + [the label strings]))
ImageId(ml_dataset, z, var_name, cmap_cbar, cmap_vmin, cmap_vmax, labels) ==
    Join("-", <<Hex(ml_dataset.id), ToString(z), var_name, cmap_cbar,
                StrOf(cmap_vmin), StrOf(cmap_vmax)>>
              \o LabelStrs(labels))

\* bool(image_cache): None and a mapping without entries are false
CacheIsTrue(cache) == cache.present /\ DOMAIN cache.entries # {}

\* image_id in image_cache
InCache(cache, image_id) == image_id \in DOMAIN cache.entries

\* the lookup gives some image of the cache when image_id is not in it
CachedImageOrOther(cache, image_id) ==
    IF ~CacheIsTrue(cache) THEN <<>>
    ELSE IF InCache(cache, image_id) THEN <<cache.entries[image_id]>>
    ELSE <<cache.entries[CHOOSE other \in DOMAIN cache.entries : TRUE]>>

\* if image_cache and image_id in image_cache: image = image_cache[image_id];
\* <<>> when the image is to be built
CachedImage(cache, image_id) ==
    IF CacheIsTrue(cache) /\ InCache(cache, image_id)
    THEN <<cache.entries[image_id]>>
    ELSE <<>>

\* a cache that keeps the new image only
CacheSetAlone(cache, image_id, image) ==
    [present |-> TRUE, entries |-> (image_id :> image)]

\* image_cache[image_id] = image
CacheSet(cache, image_id, image) ==
    [present |-> TRUE, entries |-> (image_id :> image) @@ cache.entries]

\* var.attrs.get(name): <<>> stands for None
AttrsGet(attrs, name) == IF name \in DOMAIN attrs THEN <<attrs[name]>> ELSE <<>>

\* no_data_value = var.attrs.get('_FillValue')
NoDataValue(var) == AttrsGet(var.attrs, "_FillValue")

\* valid_range from the attribute valid_range, or else from valid_min and
\* valid_max when both are there
ValidRange(var) ==
    IF "valid_range" \in DOMAIN var.attrs THEN var.attrs["valid_range"]
    ELSE IF "valid_min" \in DOMAIN var.attrs /\ "valid_max" \in DOMAIN var.attrs
    THEN <<var.attrs["valid_min"], var.attrs["valid_max"]>>
    ELSE <<>>

\* the index of the coordinate value nearest to label; of two values at the
\* same distance the one with the larger index
Nearest(coord_values, label) ==
    CHOOSE i \in 1..Len(coord_values) :
        \A j \in 1..Len(coord_values) :
            \/ Abs(coord_values[i] - label) < Abs(coord_values[j] - label)
            \/ Abs(coord_values[i] - label) = Abs(coord_values[j] - label) /\ i >= j

\* var.isel(**labels) or var.sel(method='nearest', **labels) for a variable
\* with the dimensions (time, lat, lon) and one label
SelectByLabel(var, label, labels_are_indices) ==
    IF label[1] \notin Range(var.dims)
    THEN Raised("ValueError", "dimensions do not exist", <<label[1]>>, <<>>)
    ELSE IF labels_are_indices
    THEN IF label[2] \in 0..(Len(var.time) - 1)
         THEN Returned(var.data[<<label[2]>>])
         ELSE Raised("IndexError", "index out of bounds", <<label[1]>>, <<>>)
    ELSE Returned(var.data[<<Nearest(var.time, label[2]) - 1>>])

\* the 2-D array of the request without the check of the number of labels
SelectArrayUnchecked(var, var_name, labels, labels_are_indices, exception_type) ==
    IF Len(var.dims) = 2 THEN Returned(var.data[<<>>])
    ELSE IF Len(var.dims) > 2
    THEN IF labels = <<>> THEN Returned(var.data[<<0>>])
         ELSE SelectByLabel(var, labels[1], labels_are_indices)
    ELSE Raised(exception_type, "must be an N-D Dataset with N >= 2",
                <<var_name>>, <<Len(var.dims)>>)

\* "Make sure we work with 2D image arrays only": the 2-D array of the
\* request, or the error raised
SelectArray(var, var_name, labels, labels_are_indices, exception_type) ==
    IF Len(var.dims) = 2
    THEN IF Len(labels) = 0 THEN Returned(var.data[<<>>])
         ELSE Raised("AssertionError", "", <<>>, <<Len(labels)>>)
    ELSE IF Len(var.dims) > 2
    THEN IF Len(labels) = Len(var.dims) - 2
         THEN SelectByLabel(var, labels[1], labels_are_indices)
         ELSE Raised("AssertionError", "", <<>>, <<Len(labels)>>)
    ELSE Raised(exception_type, "must be an N-D Dataset with N >= 2",
                <<var_name>>, <<Len(var.dims)>>)

\* array.min(), array.max()
ArrayMin(array) == CHOOSE v \in Range(array) : \A w \in Range(array) : v <= w

ArrayMax(array) == CHOOSE v \in Range(array) : \A w \in Range(array) : v >= w

\* array.min() if np.isnan(cmap_vmin) else cmap_vmin, for a cmap_vmin that is
\* not None
RangeLimit(cmap_v, array_limit) ==
    IF cmap_v.kind = "nan" THEN Float(array_limit) ELSE cmap_v

\* NdarrayImage(array.values, image_id=f'ndai-{image_id}', tile_size=...).
\* An image is the record of what its constructors were given; kind lists the
\* image classes from the innermost to the outermost.
NdarrayImage(array, image_id, tile_grid) ==
    [kind |-> <<"NdarrayImage">>, image_id |-> "ndai-" \o image_id,
     array |-> array, tile_size |-> tile_grid.tile_size, flip_y |-> FALSE,
     no_data_value |-> <<>>, valid_range |-> <<>>, value_range |-> <<>>,
     cmap_name |-> "", tile_cache |-> FALSE]

\* TransformArrayImage(image, image_id=f'tai-{image_id}', flip_y=..., ...)
TransformArrayImage(source, image_id, tile_grid, no_data_value, valid_range) ==
    [source EXCEPT !.kind = Append(@, "TransformArrayImage"),
                   !.image_id = "tai-" \o image_id,
                   !.flip_y = tile_grid.inv_y,
                   !.no_data_value = no_data_value,
                   !.valid_range = valid_range]

\* ColorMappedRgbaImage(image, image_id=f'rgb-{image_id}', value_range=..., ...)
ColorMappedRgbaImage(source, image_id, value_range, cmap_name, tile_cache) ==
    [source EXCEPT !.kind = Append(@, "ColorMappedRgbaImage"),
                   !.image_id = "rgb-" \o image_id,
                   !.value_range = value_range,
                   !.cmap_name = cmap_name,
                   !.tile_cache = tile_cache]

\* ColorMappedRgbaImage2(array.values, image_id=f'rgb-{image_id}', ...)
ColorMappedRgbaImage2(array, image_id, tile_grid, cmap_range, cmap_name, no_data_value, valid_range, tile_cache) ==
    [kind |-> <<"ColorMappedRgbaImage2">>, image_id |-> "rgb-" \o image_id,
     array |-> array, tile_size |-> tile_grid.tile_size, flip_y |-> tile_grid.inv_y,
     no_data_value |-> no_data_value, valid_range |-> valid_range,
     value_range |-> cmap_range, cmap_name |-> cmap_name, tile_cache |-> tile_cache]

\* the image is a whole pipeline: its outermost class is a colour mapped image
IsPipeline(image) ==
    image.kind[Len(image.kind)] \in {"ColorMappedRgbaImage", "ColorMappedRgbaImage2"}

\* image.get_tile(x, y): the pixel of the tile column x, masked when it is the
\* no-data value or outside the valid range, colour mapped over the value
\* range and encoded
GetTile(image, x, y) ==
    [pixel       |-> image.array[x + 1],
     masked      |-> \/ image.no_data_value = <<image.array[x + 1]>>
                     \/ /\ image.valid_range # <<>>
                        /\ \/ image.array[x + 1] < image.valid_range[1]
                           \/ image.array[x + 1] > image.valid_range[2],
     flip_y      |-> image.flip_y,
     value_range |-> image.value_range,
     cmap_name   |-> image.cmap_name,
     format      |-> "PNG"]

\* ml_dataset.get_dataset(index)
GetDataset(ml_dataset, index) == ml_dataset.levels[index + 1]

\* the variable of the request: dataset[var_name] of the dataset of level
\* num_levels - 1 - z
RequestedVar(ml_dataset, req) ==
    GetDataset(ml_dataset, ml_dataset.num_levels - 1 - req.z)[req.var_name]

\* the image_id of a request
RequestImageId(ml_dataset, req) ==
    ImageId(ml_dataset, req.z, req.var_name, req.cmap_cbar, req.cmap_vmin,
            req.cmap_vmax, req.labels)

\* the lines from np.isnan(cmap_vmin) to the last image constructor: the
\* pipeline for the loaded array, or the TypeError of np.isnan(None)
NewImage(ml_dataset, var, array, image_id, req) ==
    IF req.cmap_vmin.kind = "None" \/ req.cmap_vmax.kind = "None"
    THEN Raised("TypeError", "ufunc 'isnan' not supported for the input types", <<>>, <<>>)
    ELSE LET cmap_vmin == RangeLimit(req.cmap_vmin, ArrayMin(array))
             cmap_vmax == RangeLimit(req.cmap_vmax, ArrayMax(array))
             tile_grid == ml_dataset.tile_grid
         IN  Returned(
               IF req.tile_comp_mode = 0
               THEN ColorMappedRgbaImage(
                        TransformArrayImage(NdarrayImage(array, image_id, tile_grid),
                                            image_id, tile_grid,
                                            NoDataValue(var), ValidRange(var)),
                        image_id, <<cmap_vmin, cmap_vmax>>, req.cmap_cbar, req.tile_cache)
               ELSE ColorMappedRgbaImage2(array, image_id, tile_grid,
                                          <<cmap_vmin, cmap_vmax>>, req.cmap_cbar,
                                          NoDataValue(var), ValidRange(var),
                                          req.tile_cache))

\* the outcome of a call: what it returned or raised, the image cache after
\* the call, the image_id, whether var.isel or var.sel selected an array,
\* whether array.load() was called, and the image the tile was taken from
Outcome(r, cache, image_id, selected, loaded, image) ==
    [ret |-> r, image_cache |-> cache, image_id |-> image_id,
     selected |-> selected, loaded |-> loaded, image |-> image]

\* get_ml_dataset_tile of the request req (its arguments but ml_dataset and
\* image_cache) with the image cache cache
get_ml_dataset_tile(ml_dataset, req, cache) ==
    LET var == RequestedVar(ml_dataset, req)
        image_id == RequestImageId(ml_dataset, req)
        cached == CachedImage(cache, image_id)
    IN  IF cached # <<>>
        THEN Outcome(Returned(GetTile(cached[1], req.x, req.y)),
                     cache, image_id, FALSE, FALSE, cached)
        ELSE LET array == SelectArray(var, req.var_name, req.labels,
                                      req.labels_are_indices, req.exception_type)
             IN  IF array.status = "raised"
                 THEN Outcome(array, cache, image_id, FALSE, FALSE, <<>>)
                 ELSE LET image == NewImage(ml_dataset, var, array.value, image_id, req)
                      IN  IF image.status = "raised"
                          THEN Outcome(image, cache, image_id, TRUE, TRUE, <<>>)
                          ELSE Outcome(Returned(GetTile(image.value, req.x, req.y)),
                                       IF CacheIsTrue(cache)
                                       THEN CacheSet(cache, image_id, image.value)
                                       ELSE cache,
                                       image_id, TRUE, TRUE, <<image.value>>)

----------------------------------------------------------------------------
(* The multi-level datasets and the requests of the model.  Every level has *)
(* a variable v3 on (time, lat, lon) with two time steps, a variable v2 on  *)
(* (lat, lon) and a variable v1 on (time).                                  *)

MaxCalls == 2       \* most calls of get_ml_dataset_tile in a behaviour
MaxVersion == 1     \* most changes of the data of a dataset object

TimeValues == <<1, 3>>

\* a row of two pixels that is different for every array of the model
Pixels(version, level, base) ==
    <<base + 10 * level + 100 * version, base + 10 * level + 100 * version + 1>>

LevelDataset(level, version) ==
    [v3 |-> [dims |-> <<"time", "lat", "lon">>, time |-> TimeValues,
             attrs |-> ("_FillValue" :> 3),
             data |-> [idx \in {<<t>> : t \in 0..(Len(TimeValues) - 1)} |->
                          Pixels(version, level, 2 * idx[1])]],
     v2 |-> [dims |-> <<"lat", "lon">>, time |-> <<>>,
             attrs |-> ("valid_min" :> 0 @@ "valid_max" :> 50),
             data |-> [idx \in {<<>>} |-> Pixels(version, level, 50)]],
     v1 |-> [dims |-> <<"time">>, time |-> TimeValues, attrs |-> <<>>,
             data |-> <<>>]]

\* the MultiLevelDataset object at the address id whose data has been changed
\* version times
MlDataset(id, version) ==
    [id |-> id, version |-> version, num_levels |-> 2,
     levels |-> <<LevelDataset(0, version), LevelDataset(1, version)>>,
     tile_grid |-> [tile_size |-> 256, inv_y |-> TRUE]]

\* the arguments of a call but ml_dataset, image_cache and tile_cache
Request(var_name, x, z, labels, labels_are_indices, cmap_vmin, cmap_vmax, tile_comp_mode) ==
    [var_name |-> var_name, x |-> x, y |-> 0, z |-> z, labels |-> labels,
     labels_are_indices |-> labels_are_indices, cmap_cbar |-> "jet",
     cmap_vmin |-> cmap_vmin, cmap_vmax |-> cmap_vmax,
     tile_comp_mode |-> tile_comp_mode, exception_type |-> "ValueError"]

\* requests for the second time step of v3 with every colour range
RangeRequests ==
    {Request("v3", 0, 0, <<<<"time", 1>>>>, lai, vmin, vmax, mode) :
        lai \in BOOLEAN,
        vmin \in {None, FloatNaN, Float(0), Float(1)},
        vmax \in {None, FloatNaN, Float(20)},
        mode \in {0, 1}}

\* requests for other tiles, levels, time steps and variables, and requests
\* with too few or too many labels
OtherRequests ==
    {Request("v3", 1, 0, <<<<"time", 1>>>>, FALSE, Float(0), Float(20), 0),
     Request("v3", 0, 1, <<<<"time", 1>>>>, FALSE, Float(0), Float(20), 0),
     Request("v3", 0, 0, <<<<"time", 0>>>>, FALSE, Float(0), Float(20), 0),
     Request("v3", 0, 0, <<<<"time", 0>>>>, TRUE, Float(0), Float(20), 0),
     Request("v3", 0, 0, <<>>, FALSE, Float(0), Float(20), 0),
     Request("v3", 0, 0, <<<<"time", 1>>, <<"lat", 0>>>>, FALSE, Float(0), Float(20), 0),
     Request("v2", 0, 0, <<>>, FALSE, Float(0), Float(20), 0),
     Request("v2", 0, 0, <<>>, FALSE, FloatNaN, FloatNaN, 1),
     Request("v2", 0, 0, <<<<"time", 1>>>>, FALSE, Float(0), Float(20), 0),
     Request("v1", 0, 0, <<>>, FALSE, Float(0), Float(20), 0),
     Request("v1", 0, 0, <<<<"time", 1>>>>, FALSE, Float(0), Float(20), 0)}

TileRequests == RangeRequests \cup OtherRequests

\* image_cache=None
NoCache == [present |-> FALSE, entries |-> <<>>]

\* image_cache=dict()
EmptyCache == [present |-> TRUE, entries |-> <<>>]

\* an image cache in which another user of the cache has stored an image
SharedCache ==
    [present |-> TRUE,
     entries |-> ("legend" :>
                    ColorMappedRgbaImage2(<<0, 0>>, "legend", [tile_size |-> 256, inv_y |-> FALSE],
                                          <<Float(0), Float(1)>>, "jet", <<>>, <<>>, FALSE))]

ImageCaches == {NoCache, EmptyCache, SharedCache}

InitTile ==
    /\ dataset = MlDataset(1, 0)
    /\ call = NoCall
    /\ ret = NoRet
    /\ image_cache \in ImageCaches
    /\ history = <<>>
    /\ threads = <<>>

\* a call of get_ml_dataset_tile from start to end; tile_cache is passed
\* whenever image_cache is
TileCall(req) ==
    LET r == ("tile_cache" :> image_cache.present) @@ req
        out == get_ml_dataset_tile(dataset, r, image_cache)
    IN  /\ call' = ("op" :> "get_ml_dataset_tile") @@ r
        /\ ret' = out.ret
        /\ image_cache' = out.image_cache
        /\ history' = Append(history, [call |-> r, dataset |-> dataset,
                                       cache_before |-> image_cache,
                                       outcome |-> out])
        /\ UNCHANGED <<dataset, threads>>

CallGetMlDatasetTile ==
    /\ Len(history) < MaxCalls
    /\ \E req \in TileRequests : TileCall(req)

NextTile == CallGetMlDatasetTile

SpecTile == InitTile /\ [][NextTile]_vars

----------------------------------------------------------------------------
(* Properties of get_ml_dataset_tile, checked under SpecTile *)

Calls == 1..Len(history)

\* the call k returned a tile
Succeeded(k) == history[k].outcome.ret.status = "ok"

\* the call k took its image from the image cache
ReusedImage(k) ==
    /\ Succeeded(k)
    /\ ~history[k].outcome.selected
    /\ ~history[k].outcome.loaded

\* the number of axes of the variable of call k
NumAxes(k) == Len(RequestedVar(history[k].dataset, history[k].call).dims)

\* C12: with an image cache that is empty at first, of two consecutive calls
\* with identical arguments the second returns the tile of the first without
\* selecting or loading an array: it takes the image the first call stored.
C12_SecondCallReuses ==
    \A k \in Calls : \A n \in Calls :
        (/\ n = k + 1
         /\ history[1].cache_before = EmptyCache
         /\ history[n].call = history[k].call
         /\ Succeeded(k)) =>
            /\ history[n].outcome.ret = history[k].outcome.ret
            /\ ReusedImage(n)
            /\ history[n].cache_before.entries[history[n].outcome.image_id]
                   = history[k].outcome.image[1]

\* C13: two calls with the same image_id return the same tile for the same
\* (x, y), and the image a call takes from the cache is the image a build from
\* the arguments of the call gives.
C13_SameIdentitySameTile ==
    \A k \in Calls : \A n \in Calls :
        (/\ k < n
         /\ history[k].outcome.image_id = history[n].outcome.image_id
         /\ history[k].call.x = history[n].call.x
         /\ history[k].call.y = history[n].call.y
         /\ Succeeded(k)
         /\ Succeeded(n)) =>
            /\ history[k].outcome.ret.value = history[n].outcome.ret.value
            /\ ReusedImage(n) =>
                  LET fresh == get_ml_dataset_tile(history[n].dataset, history[n].call, NoCache)
                  IN  fresh.ret.status = "ok" =>
                          GetTile(fresh.image[1], history[n].call.x, history[n].call.y)
                              = history[n].outcome.ret.value

\* the calls k and n have the same arguments but for cmap_vmin or cmap_vmax
DifferInRangeOnly(k, n) ==
    /\ <<history[k].call.cmap_vmin, history[k].call.cmap_vmax>>
           # <<history[n].call.cmap_vmin, history[n].call.cmap_vmax>>
    /\ [history[k].call EXCEPT !.cmap_vmin = None, !.cmap_vmax = None]
           = [history[n].call EXCEPT !.cmap_vmin = None, !.cmap_vmax = None]
    /\ history[k].dataset = history[n].dataset

\* C14: two calls that differ in cmap_vmin or cmap_vmax only have different
\* image_ids; the later call does not take the image of the earlier one, and
\* when both images are stored the cache holds an entry for each.
C14_RangeInIdentity ==
    \A k \in Calls : \A n \in Calls :
        (k < n /\ DifferInRangeOnly(k, n)) =>
            /\ history[k].outcome.image_id # history[n].outcome.image_id
            /\ (Succeeded(k) /\ Succeeded(n)) =>
                  /\ history[n].outcome.image # history[k].outcome.image
                  /\ CacheIsTrue(history[k].cache_before) =>
                        /\ InCache(image_cache, history[k].outcome.image_id)
                        /\ InCache(image_cache, history[n].outcome.image_id)
                        /\ image_cache.entries[history[k].outcome.image_id]
                               = history[k].outcome.image[1]
                        /\ image_cache.entries[history[n].outcome.image_id]
                               = history[n].outcome.image[1]

\* two calls with the colour ranges (0, 20) and (1, 20) have both stored their
\* images in the image cache
C14_Witness ==
    /\ Len(history) = 2
    /\ DifferInRangeOnly(1, 2)
    /\ history[1].call.cmap_vmin = Float(0)
    /\ history[2].call.cmap_vmin = Float(1)
    /\ Succeeded(1)
    /\ Succeeded(2)
    /\ history[2].outcome.loaded
    /\ Cardinality(DOMAIN image_cache.entries) = 3

\* the number of labels of call k is the number of non-spatial axes
LabelCountFits(k) ==
    \/ NumAxes(k) = 2 /\ Len(history[k].call.labels) = 0
    \/ NumAxes(k) > 2 /\ Len(history[k].call.labels) = NumAxes(k) - 2

\* cmap_vmin and cmap_vmax of call k are given, as numbers or as NaN
RangeGiven(k) ==
    /\ history[k].call.cmap_vmin.kind # "None"
    /\ history[k].call.cmap_vmax.kind # "None"

\* C15: a call on a variable with N >= 2 axes returns a tile only when N - 2
\* labels are given (none for N = 2); with another number of labels it fails
\* on the check of the number of labels, before an array is loaded; with one
\* label for the time axis of a variable with 3 axes, or no label for a
\* variable with 2 axes, and a given colour range it returns a tile.
C15_LabelCount ==
    \A k \in Calls :
        NumAxes(k) >= 2 =>
            /\ Succeeded(k) => LabelCountFits(k)
            /\ ~LabelCountFits(k) =>
                  /\ history[k].outcome.ret.status = "raised"
                  /\ history[k].outcome.ret.exc = "AssertionError"
                  /\ history[k].outcome.ret.sizes = <<Len(history[k].call.labels)>>
                  /\ ~history[k].outcome.loaded
            /\ (LabelCountFits(k) /\ RangeGiven(k)) => Succeeded(k)

\* calls on the variable with 3 axes: one with one label that returned a
\* tile, and one with no label or two labels that failed
C15_Witness ==
    /\ Len(history) = 2
    /\ NumAxes(1) = 3
    /\ Len(history[1].call.labels) = 1
    /\ Succeeded(1)
    /\ NumAxes(2) = 3
    /\ Len(history[2].call.labels) # 1
    /\ history[2].outcome.ret.exc = "AssertionError"

\* the limit of the colour range for a given cmap_v
ExpectedLimit(cmap_v, array_limit) ==
    IF cmap_v.kind = "float" THEN cmap_v ELSE Float(array_limit)

\* C16: a call that builds a new image returns a tile, and the value range of
\* the image is (cmap_vmin, cmap_vmax), with the minimum of the selected array
\* for a cmap_vmin that is not given or NaN and its maximum for such a
\* cmap_vmax.
C16_ValueRange ==
    \A k \in Calls :
        LET array == SelectArray(RequestedVar(history[k].dataset, history[k].call),
                                 history[k].call.var_name, history[k].call.labels,
                                 history[k].call.labels_are_indices,
                                 history[k].call.exception_type)
        IN  (/\ ~InCache(history[k].cache_before, history[k].outcome.image_id)
             /\ array.status = "ok") =>
                /\ Succeeded(k)
                /\ history[k].outcome.image[1].value_range
                       = <<ExpectedLimit(history[k].call.cmap_vmin, ArrayMin(array.value)),
                           ExpectedLimit(history[k].call.cmap_vmax, ArrayMax(array.value))>>

\* the request of call k is valid: its variable has 2 axes or more, the
\* number of labels fits and the colour range is given
ValidRequest(k) == NumAxes(k) >= 2 /\ LabelCountFits(k) /\ RangeGiven(k)

\* C17: a valid request with image_cache=None and tile_cache=None, or with an
\* image cache that does not hold its image_id, selects and loads the array,
\* builds the image and returns the tile of that image.
C17_CacheAbsenceNoFailure ==
    \A k \in Calls :
        (/\ ValidRequest(k)
         /\ \/ ~history[k].cache_before.present /\ ~history[k].call.tile_cache
            \/ ~InCache(history[k].cache_before, history[k].outcome.image_id)) =>
            /\ Succeeded(k)
            /\ history[k].outcome.selected
            /\ history[k].outcome.loaded
            /\ IsPipeline(history[k].outcome.image[1])
            /\ history[k].outcome.image[1].array
                   = SelectArray(RequestedVar(history[k].dataset, history[k].call),
                                 history[k].call.var_name, history[k].call.labels,
                                 history[k].call.labels_are_indices,
                                 history[k].call.exception_type).value
            /\ history[k].outcome.ret.value
                   = GetTile(history[k].outcome.image[1], history[k].call.x,
                             history[k].call.y)

\* a call without caches and a call with an image cache that holds another
\* image only have both returned tiles
C17_Witness ==
    \E k \in Calls : \E n \in Calls :
        /\ ~history[k].cache_before.present
        /\ ~history[k].call.tile_cache
        /\ ValidRequest(k)
        /\ Succeeded(k)
        /\ history[k].outcome.loaded
        /\ n # k
        /\ history[n].call.var_name = "v2"
        /\ history[n].call.cmap_vmin = FloatNaN
        /\ Succeeded(n)

----------------------------------------------------------------------------
(* Calls of get_ml_dataset_tile on a dataset whose data changes between    *)
(* the calls                                                                *)

\* requests with labels that are coordinate values
DataRequests ==
    {Request("v3", 0, 0, <<<<"time", 1>>>>, FALSE, FloatNaN, FloatNaN, 0),
     Request("v3", 0, 0, <<<<"time", 1>>>>, FALSE, Float(0), Float(20), 0),
     Request("v3", 1, 0, <<<<"time", 3>>>>, FALSE, Float(0), Float(20), 1),
     Request("v2", 0, 0, <<>>, FALSE, Float(0), Float(20), 0)}

CallGetMlDatasetTileOnData ==
    /\ Len(history) < MaxCalls
    /\ \E req \in DataRequests : TileCall(req)

\* the data of the dataset object is changed in place
MutateDataset ==
    /\ dataset.version < MaxVersion
    /\ dataset' = MlDataset(dataset.id, dataset.version + 1)
    /\ UNCHANGED <<call, ret, tile_vars>>

\* the dataset object is replaced by another object with other data; the new
\* object is at a new address or, the old object having been freed, at the
\* address of the old one
ReplaceDataset ==
    /\ dataset.version < MaxVersion
    /\ \E id \in {dataset.id, dataset.id + 1} :
           dataset' = MlDataset(id, dataset.version + 1)
    /\ UNCHANGED <<call, ret, tile_vars>>

NextTileData ==
    \/ CallGetMlDatasetTileOnData
    \/ MutateDataset
    \/ ReplaceDataset

SpecTileData == InitTile /\ [][NextTileData]_vars

\* the call m built its image and stored it in the image cache
StoredImage(m) ==
    /\ Succeeded(m)
    /\ history[m].outcome.loaded
    /\ InCache(history[m].outcome.image_cache, history[m].outcome.image_id)

\* C20: when the data of the dataset has changed between two calls, the
\* dataset component of the image_id of the later call differs from that of
\* the earlier call, and the later call does not take from the cache the
\* image the earlier call stored.
C20_IdentityFollowsData ==
    \A m \in Calls : \A n \in Calls :
        (m < n /\ history[m].dataset.version # history[n].dataset.version) =>
            /\ Hex(history[m].dataset.id) # Hex(history[n].dataset.id)
            /\ ~(/\ StoredImage(m)
                 /\ ReusedImage(n)
                 /\ history[n].outcome.image = history[m].outcome.image)

----------------------------------------------------------------------------
(* Concurrent calls of get_ml_dataset_tile that share one image cache.  A   *)
(* thread runs one call, statement by statement; a thread switch may happen *)
(* between any two of the steps below.                                      *)

Threads == {1, 2}

ThreadRequests ==
    {Request("v3", 0, 0, <<<<"time", 1>>>>, FALSE, Float(0), Float(20), 0),
     Request("v3", 0, 0, <<<<"time", 1>>>>, FALSE, Float(0), Float(20), 1),
     Request("v2", 0, 0, <<>>, FALSE, FloatNaN, FloatNaN, 0),
     Request("v2", 0, 0, <<>>, FALSE, None, None, 0),
     Request("v1", 0, 0, <<>>, FALSE, Float(0), Float(20), 0)}

\* a thread that has not called yet
Idle == [pc |-> "idle", req |-> <<>>, image_id |-> "", array |-> <<>>,
         image |-> <<>>, hit |-> FALSE, ret |-> NoRet]

InitThreads ==
    /\ dataset = MlDataset(1, 0)
    /\ call = NoCall
    /\ ret = NoRet
    /\ image_cache \in ImageCaches
    /\ history = <<>>
    /\ threads = [t \in Threads |-> Idle]

\* the thread t goes on with the local variables changed as in next
Step(t, next) ==
    /\ threads' = [threads EXCEPT ![t] = next @@ threads[t]]
    /\ UNCHANGED <<dataset, call, ret, history>>

\* the call of thread t ends with the exception r
Fail(t, r) == Step(t, [pc |-> "failed", ret |-> r])

\* lines 54-63: the call begins, var and image_id are computed
StartCall ==
    \E t \in Threads :
        /\ threads[t].pc = "idle"
        /\ \E req \in ThreadRequests :
               Step(t, [pc |-> "test_cache",
                        req |-> ("tile_cache" :> image_cache.present) @@ req,
                        image_id |-> RequestImageId(dataset, req)])
        /\ UNCHANGED image_cache

\* line 65: if image_cache ...
TestCache ==
    \E t \in Threads :
        /\ threads[t].pc = "test_cache"
        /\ Step(t, [pc |-> IF CacheIsTrue(image_cache) THEN "test_in" ELSE "select"])
        /\ UNCHANGED image_cache

\* line 65: ... and image_id in image_cache
TestInCache ==
    \E t \in Threads :
        /\ threads[t].pc = "test_in"
        /\ Step(t, [pc |-> IF InCache(image_cache, threads[t].image_id)
                           THEN "get" ELSE "select"])
        /\ UNCHANGED image_cache

\* line 66: image = image_cache[image_id], a KeyError when the entry is gone
GetCached ==
    \E t \in Threads :
        /\ threads[t].pc = "get"
        /\ IF InCache(image_cache, threads[t].image_id)
           THEN Step(t, [pc |-> "get_tile", hit |-> TRUE,
                         image |-> <<image_cache.entries[threads[t].image_id]>>])
           ELSE Fail(t, Raised("KeyError", threads[t].image_id, <<>>, <<>>))
        /\ UNCHANGED image_cache

\* lines 68-91: the attributes, the 2-D array and array.load()
SelectAndLoad ==
    \E t \in Threads :
        /\ threads[t].pc = "select"
        /\ LET array == SelectArray(RequestedVar(dataset, threads[t].req),
                                    threads[t].req.var_name, threads[t].req.labels,
                                    threads[t].req.labels_are_indices,
                                    threads[t].req.exception_type)
           IN  IF array.status = "raised" THEN Fail(t, array)
               ELSE Step(t, [pc |-> "build", array |-> array.value])
        /\ UNCHANGED image_cache

\* lines 93-102 and 119-130: the colour range and the first image, which for
\* tile_comp_mode # 0 is the whole pipeline
BuildFirstImage ==
    \E t \in Threads :
        /\ threads[t].pc = "build"
        /\ LET req == threads[t].req
               image == NewImage(dataset, RequestedVar(dataset, req), threads[t].array,
                                 threads[t].image_id, req)
           IN  IF image.status = "raised" THEN Fail(t, image)
               ELSE IF req.tile_comp_mode = 0
               THEN Step(t, [pc |-> "transform",
                             image |-> <<NdarrayImage(threads[t].array, threads[t].image_id,
                                                      dataset.tile_grid)>>])
               ELSE Step(t, [pc |-> "test_store", image |-> <<image.value>>])
        /\ UNCHANGED image_cache

\* lines 103-109: image = TransformArrayImage(image, ...)
BuildTransform ==
    \E t \in Threads :
        /\ threads[t].pc = "transform"
        /\ LET var == RequestedVar(dataset, threads[t].req)
           IN  Step(t, [pc |-> "colormap",
                        image |-> <<TransformArrayImage(threads[t].image[1],
                                                        threads[t].image_id, dataset.tile_grid,
                                                        NoDataValue(var), ValidRange(var))>>])
        /\ UNCHANGED image_cache

\* lines 110-117: image = ColorMappedRgbaImage(image, ...)
BuildColorMapped ==
    \E t \in Threads :
        /\ threads[t].pc = "colormap"
        /\ LET req == threads[t].req
           IN  Step(t, [pc |-> "test_store",
                        image |-> <<ColorMappedRgbaImage(
                                      threads[t].image[1], threads[t].image_id,
                                      <<RangeLimit(req.cmap_vmin, ArrayMin(threads[t].array)),
                                        RangeLimit(req.cmap_vmax, ArrayMax(threads[t].array))>>,
                                      req.cmap_cbar, req.tile_cache)>>])
        /\ UNCHANGED image_cache

\* line 132: if image_cache
TestStore ==
    \E t \in Threads :
        /\ threads[t].pc = "test_store"
        /\ Step(t, [pc |-> IF CacheIsTrue(image_cache) THEN "store" ELSE "get_tile"])
        /\ UNCHANGED image_cache

\* line 133: image_cache[image_id] = image
StoreImage ==
    \E t \in Threads :
        /\ threads[t].pc = "store"
        /\ image_cache' = CacheSet(image_cache, threads[t].image_id, threads[t].image[1])
        /\ Step(t, [pc |-> "get_tile"])

\* lines 146-152: tile = image.get_tile(x, y); return tile
ReturnTile ==
    \E t \in Threads :
        /\ threads[t].pc = "get_tile"
        /\ Step(t, [pc |-> "done",
                    ret |-> Returned(GetTile(threads[t].image[1], threads[t].req.x,
                                             threads[t].req.y))])
        /\ UNCHANGED image_cache

\* the owner of the image cache removes an entry (eviction, invalidation)
EvictImage ==
    /\ image_cache.present
    /\ \E image_id \in DOMAIN image_cache.entries :
           image_cache' = [image_cache EXCEPT
                              !.entries = [other \in DOMAIN image_cache.entries \ {image_id}
                                              |-> image_cache.entries[other]]]
    /\ UNCHANGED <<dataset, call, ret, history, threads>>

NextThreads ==
    \/ StartCall
    \/ TestCache
    \/ TestInCache
    \/ GetCached
    \/ SelectAndLoad
    \/ BuildFirstImage
    \/ BuildTransform
    \/ BuildColorMapped
    \/ TestStore
    \/ StoreImage
    \/ ReturnTile

SpecThreads == InitThreads /\ [][NextThreads]_vars

NextEvict == NextThreads \/ EvictImage

SpecEvict == InitThreads /\ [][NextEvict]_vars


\* the call of thread t has returned a tile of an image it built itself
BuiltAndReturned(t) == threads[t].pc = "done" /\ ~threads[t].hit

\* C18: whatever the interleaving of the calls that share one image cache,
\* every entry of the cache and every image a call has taken from the cache
\* is a whole pipeline, and once two calls with the same image_id have both
\* built their image and returned, the cache holds the entry of that image_id.
C18_OnlyWholePipelinesVisible ==
    image_cache.present =>
        /\ \A image_id \in DOMAIN image_cache.entries :
               IsPipeline(image_cache.entries[image_id])
        /\ \A t \in Threads : threads[t].hit => IsPipeline(threads[t].image[1])
        /\ \A t \in Threads : \A u \in Threads :
               (/\ t # u
                /\ BuiltAndReturned(t)
                /\ BuiltAndReturned(u)
                /\ threads[t].image_id = threads[u].image_id) =>
                   InCache(image_cache, threads[t].image_id)

\* C19: whatever the interleaving of a call with removals of entries from the
\* shared image cache, the call never ends with a KeyError for its image_id,
\* and a call that has taken its image from the cache holds a whole pipeline.
C19_RemovalNeverFails ==
    \A t \in Threads :
        /\ threads[t].ret.exc # "KeyError"
        /\ threads[t].hit => IsPipeline(threads[t].image[1])

----------------------------------------------------------------------------
(* parse_non_spatial_labels of xcube/core/tile.py.                          *)
(*                                                                         *)
(* A raw label is a sequence of tokens: groups of decimal digits ("5",      *)
(* "02", "2010"), the characters "-", "." and "/", and words ("current",   *)
(* "x").  A parsed label carries its value as a rational number; on the    *)
(* date/time axes of the model the unit of time is the month and "2010-06" *)
(* is month 6.  raw_labels.get(dim) is <<>> for None and <<label_str>>      *)
(* for a label.                                                             *)

\* get_dataset_xy_var_names(coords, must_exist=False): the names of the two
\* spatial coordinate variables, lon/lat or x/y, <<>> for None
XYVarNames(coords) ==
    IF {"lon", "lat"} \subseteq DOMAIN coords THEN <<"lon", "lat">>
    ELSE IF {"x", "y"} \subseteq DOMAIN coords THEN <<"x", "y">>
    ELSE <<>>

\* label_str.split('/', maxsplit=1) when '/' in label_str, else (label_str,)
SplitLabel(label_str) ==
    LET slashes == {i \in 1..Len(label_str) : label_str[i] = "/"}
    IN  IF slashes = {} THEN <<label_str>>
        ELSE LET first == CHOOSE i \in slashes : \A j \in slashes : i <= j
             IN  <<SubSeq(label_str, 1, first - 1),
                   SubSeq(label_str, first + 1, Len(label_str))>>

\* float(s), int(s) and pd.to_datetime(s) for the dtype of the axis: <<v>>
\* with the value v, <<>> for a ValueError
ParseText(s, dtype, dim_var) ==
    LET Number == [t \in {"1", "2", "4", "5", "02", "06", "2010"} |->
                       CASE t = "1" -> 1 [] t = "2" -> 2 [] t = "4" -> 4 [] t = "5" -> 5
                         [] t = "02" -> 2 [] t = "06" -> 6 [] t = "2010" -> 2010]
        Scale  == [t \in DOMAIN Number |->
                       CASE t \in {"1", "2", "4", "5"} -> 10 [] t \in {"02", "06"} -> 100
                         [] t = "2010" -> 10000]
        IsNumber(t) == t \in DOMAIN Number
        Unsigned(u) ==
            IF Len(u) = 1 /\ IsNumber(u[1]) THEN <<RatOfInt(Number[u[1]])>>
            ELSE IF /\ dtype = "float64" /\ Len(u) = 3
                    /\ IsNumber(u[1]) /\ u[2] = "." /\ IsNumber(u[3])
            THEN <<Rat(Number[u[1]] * Scale[u[3]] + Number[u[3]], Scale[u[3]])>>
            ELSE <<>>
        Signed(u) ==
            IF Len(u) > 1 /\ u[1] = "-"
            THEN LET v == Unsigned(Tail(u))
                 IN  IF v = <<>> THEN <<>> ELSE <<Rat(-v[1][1], v[1][2])>>
            ELSE Unsigned(u)
    IN  IF dtype \in {"float64", "int64"} THEN Signed(s)
        ELSE IF s = <<"current">> THEN <<RatOfInt(dim_var.values[Len(dim_var.values)])>>
        ELSE IF /\ Len(s) = 3 /\ s[1] = "2010" /\ s[2] \in {"-", "/"}
                /\ s[3] \in {"02", "06"}
        THEN <<RatOfInt(Number[s[3]])>>
        ELSE <<>>

\* a parser that gives every axis the first value of its coordinate
ParseLabelCurrentFirst(label_str, dim, dim_var, allow_slices, exception_type) ==
    Returned([kind |-> dim_var.dtype, v |-> RatOfInt(dim_var.values[1])])

\* lines 175-206: the label of the axis dim with the coordinate dim_var; an
\* exception_type raised at line 194 is caught at line 205 when it is ValueError
ParseLabel(label_str, dim, dim_var, allow_slices, exception_type) ==
    LET invalid == Raised(exception_type, "is not a valid value for dimension",
                          <<label_str[1], dim>>, <<>>)
        \* a label that is one value of the axis
        Label(dtype, v) == [kind |-> dtype, v |-> v]
        \* a + (b - a) // 2 and a + (b - a) / 2 on rational numbers
        MidPoint(a, b, floor_div) ==
            IF floor_div
            THEN RatOfInt(a[1] + ((b[1] - a[1]) \div 2))
            ELSE Rat(2 * a[1] * b[2] + (b[1] * a[2] - a[1] * b[2]), 2 * a[2] * b[2])
    IN  IF label_str = <<>>
        THEN Returned(Label(dim_var.dtype, RatOfInt(dim_var.values[1])))
        ELSE IF label_str[1] = <<"current">>
        THEN Returned(Label(dim_var.dtype, RatOfInt(dim_var.values[Len(dim_var.values)])))
        ELSE IF dim_var.dtype \notin {"float64", "int64", "datetime64"}
        THEN IF exception_type = "ValueError"
             THEN invalid
             ELSE Raised(exception_type, "unable to parse value into a",
                         <<label_str[1], dim_var.dtype>>, <<>>)
        ELSE LET label_strs == SplitLabel(label_str[1])
                 labels == [i \in 1..Len(label_strs) |->
                               ParseText(label_strs[i], dim_var.dtype, dim_var)]
             IN  IF \E i \in 1..Len(label_strs) : labels[i] = <<>>
                 THEN invalid
                 ELSE IF Len(label_strs) = 1
                 THEN Returned(Label(dim_var.dtype, labels[1][1]))
                 ELSE IF allow_slices
                 THEN Returned([kind |-> "slice",
                                start |-> Label(dim_var.dtype, labels[1][1]),
                                stop |-> Label(dim_var.dtype, labels[2][1])])
                 ELSE Returned(Label(dim_var.dtype,
                                     MidPoint(labels[1][1], labels[2][1],
                                              dim_var.dtype = "int64")))

\* lines 171-208: the loop over dims from position i on; parsed_labels is a
\* function from the axis names to the labels
RECURSIVE ParseLabelsLoop(_, _, _, _, _, _, _, _)
ParseLabelsLoop(raw_labels, dims, coords, xy_dims, allow_slices, exception_type, i, parsed_labels) ==
    IF i > Len(dims) THEN Returned(parsed_labels)
    ELSE IF dims[i] \in xy_dims
    THEN ParseLabelsLoop(raw_labels, dims, coords, xy_dims, allow_slices, exception_type,
                         i + 1, parsed_labels)
    ELSE IF dims[i] \notin DOMAIN coords
    THEN Raised("KeyError", "", <<dims[i]>>, <<>>)
    ELSE LET label == ParseLabel(AttrsGet(raw_labels, dims[i]), dims[i], coords[dims[i]],
                                 allow_slices, exception_type)
         IN  IF label.status = "raised" THEN label
             ELSE ParseLabelsLoop(raw_labels, dims, coords, xy_dims, allow_slices,
                                  exception_type, i + 1,
                                  (dims[i] :> label.value) @@ parsed_labels)

parse_non_spatial_labels(raw_labels, dims, coords, allow_slices, exception_type) ==
    LET xy_var_names == XYVarNames(coords)
    IN  IF xy_var_names = <<>>
        THEN Raised(exception_type, "missing spatial coordinates", <<>>, <<>>)
        ELSE ParseLabelsLoop(raw_labels, dims, coords,
                             {coords[xy_var_names[k]].dims[1] : k \in 1..2},
                             allow_slices, exception_type, 1, <<>>)

----------------------------------------------------------------------------
(* Calls of parse_non_spatial_labels *)

\* the raw labels tried on an axis of the dtype
LabelTexts(dtype) ==
    LET numbers == {<<"5">>, <<"-", "5">>, <<"2", ".", "5">>, <<"2", "/", "5">>,
                    <<"5", "/", "2">>, <<"1", "/", "4">>, <<"4", "/", "1">>,
                    <<"2", "/", "5", "/", "1">>, <<"current", "/", "5">>}
        dates   == {<<"2010", "-", "02">>, <<"2010", "-", "02", "/", "2010", "-", "06">>,
                    <<"2010", "-", "06", "/", "2010", "-", "02">>,
                    <<"2010", "-", "02", "/", "2010", "/", "06">>,
                    <<"2010", "-", "02", "/", "x">>,
                    <<"2010", "-", "02", "/", "current">>}
        words   == {<<"current">>, <<"x">>}
    IN  CASE dtype \in {"float64", "int64"} -> numbers \cup words
          [] dtype = "datetime64" -> dates \cup words
          [] OTHER -> {<<"5">>} \cup words

\* var.dims and var.coords of the variables the labels are parsed for
LabelDatasets ==
    LET Coord(dim, dtype, values) == [dims |-> <<dim>>, dtype |-> dtype, values |-> values]
        lat == Coord("lat", "float64", <<1, 3>>)
        lon == Coord("lon", "float64", <<1, 3>>)
    IN  {[dims |-> <<"time", "lat", "lon">>,
          coords |-> [time |-> Coord("time", dtype, <<2, 4, 6>>), lat |-> lat, lon |-> lon]] :
             dtype \in {"datetime64", "int64", "float64", "str"}}
        \cup
        {[dims |-> <<"level", "time", "lat", "lon">>,
          coords |-> [level |-> Coord("level", "int64", <<1, 5>>),
                      time |-> Coord("time", "datetime64", <<2, 4, 6>>),
                      lat |-> lat, lon |-> lon]],
         [dims |-> <<"time", "y", "x">>,
          coords |-> [time |-> Coord("time", "int64", <<2, 4, 6>>),
                      y |-> Coord("y", "float64", <<1, 3>>),
                      x |-> Coord("x", "float64", <<1, 3>>)]],
         [dims |-> <<"lat", "lon">>, coords |-> [lat |-> lat, lon |-> lon]],
         [dims |-> <<"time", "lat", "lon">>,
          coords |-> [time |-> Coord("time", "int64", <<2, 4, 6>>)]],
         [dims |-> <<"band", "lat", "lon">>, coords |-> [lat |-> lat, lon |-> lon]]}

\* the raw_labels tried on the dataset: for every axis that has a coordinate
\* and is not lat, lon, x or y no label or one of the labels of its dtype;
\* with or without labels of a spatial axis and of an axis that is not in dims
RawLabels(ds) ==
    LET axes == {ds.dims[i] : i \in 1..Len(ds.dims)}
                   \cap (DOMAIN ds.coords \ {"lat", "lon", "x", "y"})
        choices == [axes -> {<<>>} \cup UNION {{<<t>> : t \in LabelTexts(ds.coords[a].dtype)} : a \in axes}]
        fitting == {c \in choices : \A a \in axes :
                       c[a] = <<>> \/ c[a][1] \in LabelTexts(ds.coords[a].dtype)}
        given(c) == [a \in {b \in axes : c[b] # <<>>} |-> c[a][1]]
        others == {<<>>, [lat |-> <<"5">>, depth |-> <<"x">>]}
    IN  {given(c) @@ o : c \in fitting, o \in others}

InitLabels ==
    /\ dataset \in LabelDatasets
    /\ call = NoCall
    /\ ret = NoRet
    /\ NoTiles

CallParseNonSpatialLabels ==
    /\ call = NoCall
    /\ \E raw_labels \in RawLabels(dataset), allow_slices \in BOOLEAN,
          exception_type \in {"ValueError", "ServiceBadRequestError"} :
           /\ call' = [op |-> "parse_non_spatial_labels", raw_labels |-> raw_labels,
                       allow_slices |-> allow_slices, exception_type |-> exception_type]
           /\ ret' = parse_non_spatial_labels(raw_labels, dataset.dims, dataset.coords,
                                              allow_slices, exception_type)
    /\ UNCHANGED <<dataset, tile_vars>>

SpecLabels == InitLabels /\ [][CallParseNonSpatialLabels]_vars

----------------------------------------------------------------------------
(* Claims about parse_non_spatial_labels *)

IsLabelsCall == call.op = "parse_non_spatial_labels"

\* the axes of dims that are not spatial axes
NonSpatialDims == Range(dataset.dims) \ {"lat", "lon", "x", "y"}

\* the raw labels of the call without those of axes that are spatial or not in dims
UsedRawLabels == [a \in DOMAIN call.raw_labels \cap NonSpatialDims |-> call.raw_labels[a]]

\* C21: a call of parse_non_spatial_labels that returns, returns one selector
\* for every axis of dims that is not a spatial axis and none for any other
\* name; an axis without a raw label gets the first value of its coordinate,
\* an axis labelled 'current' the last one; and the result is the one of the
\* call without the raw labels of axes that are spatial or not in dims.
C21_OneSelectorPerAxis ==
    (IsLabelsCall /\ ret.status = "ok") =>
        /\ DOMAIN ret.value = NonSpatialDims
        /\ \A a \in NonSpatialDims :
               /\ a \notin DOMAIN call.raw_labels =>
                      ret.value[a] = [kind |-> dataset.coords[a].dtype,
                                      v |-> <<dataset.coords[a].values[1], 1>>]
               /\ (a \in DOMAIN call.raw_labels /\ call.raw_labels[a] = <<"current">>) =>
                      ret.value[a] = [kind |-> dataset.coords[a].dtype,
                                      v |-> <<dataset.coords[a].values[
                                                  Len(dataset.coords[a].values)], 1>>]
        /\ ret = parse_non_spatial_labels(UsedRawLabels, dataset.dims, dataset.coords,
                                          call.allow_slices, call.exception_type)

C21_Witness ==
    /\ IsLabelsCall
    /\ ret.status = "ok"
    /\ dataset.dims = <<"level", "time", "lat", "lon">>
    /\ DOMAIN call.raw_labels = {"time", "lat", "depth"}
    /\ call.raw_labels["time"] = <<"current">>
    /\ ret.value = [level |-> [kind |-> "int64", v |-> <<1, 1>>],
                    time |-> [kind |-> "datetime64", v |-> <<6, 1>>]]


\* the raw label of axis a is given and is not 'current'
HasTextLabel(a) == a \in DOMAIN call.raw_labels /\ call.raw_labels[a] # <<"current">>

\* the raw label of axis a cannot be turned into a value of the dtype of the
\* axis: the dtype has no parser, or one part of the label is not a value
Unparsable(a) ==
    /\ HasTextLabel(a)
    /\ \/ dataset.coords[a].dtype \notin {"float64", "int64", "datetime64"}
       \/ \E part \in Range(SplitLabel(call.raw_labels[a])) :
              ParseText(part, dataset.coords[a].dtype, dataset.coords[a]) = <<>>

\* the parsed axes: those of dims that are not spatial and have a coordinate
ParsedDims == {i \in 1..Len(dataset.dims) : dataset.dims[i] \in NonSpatialDims \cap DOMAIN dataset.coords}

\* C22: when the label of an axis cannot be turned into a value of the dtype
\* of the axis, the call raises exception_type, whichever it is, with a
\* message that names the label and the first such axis, and returns nothing.
C22_ParseFailureNamesLabelAndAxis ==
    (/\ IsLabelsCall
     /\ XYVarNames(dataset.coords) # <<>>
     /\ NonSpatialDims \subseteq DOMAIN dataset.coords) =>
        \A i \in ParsedDims :
            (/\ Unparsable(dataset.dims[i])
             /\ \A j \in ParsedDims : j < i => ~Unparsable(dataset.dims[j])) =>
                /\ ret.status = "raised"
                /\ ret.exc = call.exception_type
                /\ ret.names = <<call.raw_labels[dataset.dims[i]], dataset.dims[i]>>
                /\ ret.value = <<>>


\* the positions of '/' in the raw label of axis a
Slashes(a) == {i \in 1..Len(call.raw_labels[a]) : call.raw_labels[a][i] = "/"}

\* no axis before position i of dims has a label that cannot be parsed
NoFailureBefore(i) == \A j \in ParsedDims : j < i => ~Unparsable(dataset.dims[j])

\* the selector expected for the label 'a/b' of the axis at position i of dims,
\* a and b being the values of the texts before and after the only '/'
PairSelector(i) ==
    LET dim_var == dataset.coords[dataset.dims[i]]
        text == call.raw_labels[dataset.dims[i]]
        at == CHOOSE k \in Slashes(dataset.dims[i]) : TRUE
        a == ParseText(SubSeq(text, 1, at - 1), dim_var.dtype, dim_var)[1]
        b == ParseText(SubSeq(text, at + 1, Len(text)), dim_var.dtype, dim_var)[1]
    IN  IF call.allow_slices
        THEN [kind |-> "slice", start |-> [kind |-> dim_var.dtype, v |-> a],
              stop |-> [kind |-> dim_var.dtype, v |-> b]]
        ELSE IF dim_var.dtype = "int64"
        THEN [kind |-> "int64", v |-> <<(a[1] + b[1]) \div 2, 1>>]
        ELSE [kind |-> dim_var.dtype,
              v |-> Rat(a[1] * b[2] + b[1] * a[2], 2 * a[2] * b[2])]

\* C28: a label 'a/b' gives the range from a to b when allow_slices is true
\* and otherwise the midpoint of a and b, on an int64 axis floor((a + b) / 2)
\* whatever the order of a and b; a label with more than one '/' makes the
\* call raise the error that names the label and the axis.
C28_PairLabels ==
    (/\ IsLabelsCall
     /\ XYVarNames(dataset.coords) # <<>>
     /\ NonSpatialDims \subseteq DOMAIN dataset.coords) =>
        \A i \in ParsedDims :
            LET dim == dataset.dims[i]
            IN  (HasTextLabel(dim) /\ dataset.coords[dim].dtype # "str") =>
                    /\ (Cardinality(Slashes(dim)) = 1 /\ ret.status = "ok") =>
                           ret.value[dim] = PairSelector(i)
                    /\ (Cardinality(Slashes(dim)) > 1 /\ NoFailureBefore(i)) =>
                           /\ ret.status = "raised"
                           /\ ret.names = <<call.raw_labels[dim], dim>>

----------------------------------------------------------------------------
(* verify_cube and assert_cube of xcube/core/verify.py.  The bounds         *)
(* variable of a coordinate variable is a coordinate of the dataset; the    *)
(* coordinate variables of the model have one dimension, their own.  The    *)
(* coordinates of the model are integers, so none of them is NaN or         *)
(* infinite.                                                                *)

\* get_dataset_time_var_name(dataset, must_exist=False): <<>> for None
TimeVarName(ds) == IF "time" \in DOMAIN ds.coords THEN <<"time">> ELSE <<>>

\* is_lon_lat_dataset(dataset, xy_var_names=xy_var_names)
IsLonLatDataset(ds, xy_var_names) == xy_var_names = <<"lon", "lat">>

\* verify_cube with _check_coord_var, _check_time, _check_lon_or_lat and
\* _check_data_variables: the report
core_verify_cube(ds) ==
    LET xy_var_names == XYVarNames(ds.coords)
        time_var_name == TimeVarName(ds)
        \* _check_coord_var: the issues found, and whether var is returned
        check_coord_var(var_name) ==
            LET var == ds.coords[var_name]
            IN  IF Len(var.values) = 0
                THEN [report |-> <<"coordinate variable must not be empty">>,
                      var |-> FALSE]
                ELSE IF var.bounds.present
                THEN [report |->
                          (IF Len(var.bounds.values) # Len(var.values)
                           THEN <<"shape of bounds coordinate variable">> ELSE <<>>)
                          \o (IF var.bounds.dtype # var.dtype
                              THEN <<"type of bounds coordinate variable">> ELSE <<>>),
                      var |-> FALSE]
                ELSE [report |-> <<>>, var |-> TRUE]
        check_time(name) ==
            LET checked == check_coord_var(name)
                values == ds.coords[name].values
            IN  IF ~checked.var THEN checked.report
                ELSE (IF ds.coords[name].dtype # "datetime64"
                      THEN <<"type of coordinate variable must be datetime64">> ELSE <<>>)
                     \o (IF \E i \in 1..(Len(values) - 1) : values[i + 1] - values[i] <= 0
                         THEN <<"values of coordinate variable must be monotonic increasing">>
                         ELSE <<>>)
        check_lon_or_lat(var_name, min_value, max_value) ==
            LET checked == check_coord_var(var_name)
                values == ds.coords[var_name].values
            IN  IF ~checked.var THEN checked.report
                ELSE IF \E i \in 1..Len(values) :
                            values[i] < min_value \/ values[i] > max_value
                THEN <<"values of coordinate variable must be in the range">>
                ELSE <<>>
        check_data_variables ==
            LET x_dim == xy_var_names[1]
                y_dim == xy_var_names[2]
                time_dim == time_var_name[1]
                bad_dims(j) ==
                    LET dims == ds.data_vars[j].dims
                    IN  \/ Len(dims) < 3
                        \/ dims[1] # time_dim
                        \/ dims[Len(dims) - 1] # y_dim
                        \/ dims[Len(dims)] # x_dim
            IN  (IF \E j \in 1..Len(ds.data_vars) : bad_dims(j)
                 THEN <<"dimensions of data variable must be (time, ..., y, x)">>
                 ELSE <<>>)
                \o (IF \E j \in 2..Len(ds.data_vars) :
                          ds.data_vars[j].dims # ds.data_vars[1].dims
                    THEN <<"dimensions of all data variables must be same">>
                    ELSE <<>>)
    IN  (IF xy_var_names = <<>>
         THEN <<"missing spatial x,y coordinate variables">> ELSE <<>>)
        \o (IF time_var_name = <<>>
            THEN <<"missing time coordinate variable">> ELSE <<>>)
        \o (IF time_var_name # <<>> THEN check_time(time_var_name[1]) ELSE <<>>)
        \o (IF xy_var_names # <<>> /\ IsLonLatDataset(ds, xy_var_names)
            THEN check_lon_or_lat(xy_var_names[1], -180, 180)
                 \o check_lon_or_lat(xy_var_names[2], -90, 90)
            ELSE <<>>)
        \o (IF xy_var_names # <<>> /\ time_var_name # <<>>
            THEN check_data_variables ELSE <<>>)

\* assert_cube: ValueError with the report, or the dataset
core_assert_cube(ds) ==
    LET report == core_verify_cube(ds)
    IN  IF report # <<>>
        THEN Raised("ValueError", "is not a valid xcube dataset", report, <<>>)
        ELSE Returned(ds)

----------------------------------------------------------------------------
(* Calls of verify_cube and assert_cube, of xcube/api.py and of             *)
(* xcube/core/verify.py, and of get_cube_point_indexes on datasets that may *)
(* or may not be cubes                                                      *)

VerifyDatasets ==
    LET Coord(dtype, values, with_bounds) ==
            [dtype |-> dtype, values |-> values,
             bounds |-> IF with_bounds
                        THEN [present |-> TRUE, dtype |-> dtype,
                              values |-> [i \in 1..Len(values) |->
                                             <<values[i] - 1, values[i] + 1>>]]
                        ELSE NoBounds]
        Var(name, dims) == [name |-> name, dtype |-> "float64", dims |-> dims,
                            data |-> <<>>]
        time_vars == {Coord(p[1][1], p[1][2], p[2]) :
                         p \in {<<"datetime64", <<3, 5>>>>, <<"datetime64", <<5, 3>>>>,
                                <<"datetime64", <<3, 3>>>>, <<"float64", <<3, 5>>>>}
                               \X BOOLEAN}
        lat_vars == {Coord("float64", p[1], p[2]) :
                        p \in {<<3, 5>>, <<3, 95>>} \X BOOLEAN}
        lon == Coord("float64", <<3, 5>>, FALSE)
        var_lists == {<<>>,
                      <<Var("A", CubeDims)>>,
                      <<Var("A", CubeDims), Var("B", <<"time", "depth", "lat", "lon">>)>>,
                      <<Var("A", <<"lat", "lon">>)>>}
    IN  {[coords |-> [time |-> t, lat |-> y, lon |-> lon], data_vars |-> data_vars] :
            t \in time_vars, y \in lat_vars, data_vars \in var_lists}
        \cup {[coords |-> [lat |-> y, lon |-> lon], data_vars |-> data_vars] :
                 y \in lat_vars, data_vars \in var_lists}
        \cup {[coords |-> [time |-> t, lat |-> y], data_vars |-> <<>>] :
                 t \in time_vars, y \in lat_vars}

InitVerify ==
    /\ dataset \in VerifyDatasets
    /\ call = NoCall
    /\ ret = NoRet
    /\ NoTiles

\* xcube.api.verify_cube(dataset)
CallVerifyCube ==
    /\ call = NoCall
    /\ call' = [op |-> "verify_cube"]
    /\ ret' = verify_cube(dataset)
    /\ UNCHANGED <<dataset, tile_vars>>

\* xcube.api.assert_cube(dataset)
CallAssertCube ==
    /\ call = NoCall
    /\ call' = [op |-> "assert_cube"]
    /\ ret' = assert_cube(dataset)
    /\ UNCHANGED <<dataset, tile_vars>>

\* xcube.core.verify.verify_cube(dataset)
CallCoreVerifyCube ==
    /\ call = NoCall
    /\ call' = [op |-> "core.verify_cube"]
    /\ ret' = Returned(core_verify_cube(dataset))
    /\ UNCHANGED <<dataset, tile_vars>>

\* xcube.core.verify.assert_cube(dataset)
CallCoreAssertCube ==
    /\ call = NoCall
    /\ call' = [op |-> "core.assert_cube"]
    /\ ret' = core_assert_cube(dataset)
    /\ UNCHANGED <<dataset, tile_vars>>

\* get_cube_point_indexes(dataset, points), which asserts the cube first
CallGetCubePointIndexesOfDataset ==
    /\ call = NoCall
    /\ \E v \in {3, 4} :
           LET points == [time |-> <<v>>, lat |-> <<v>>, lon |-> <<v>>]
           IN  /\ call' = [op |-> "get_cube_point_indexes", points |-> points,
                           dim_name_mapping |-> <<>>, cube_asserted |-> FALSE]
               /\ ret' = get_cube_point_indexes(dataset, points, <<>>, FALSE)
    /\ UNCHANGED <<dataset, tile_vars>>

NextVerify ==
    \/ CallVerifyCube
    \/ CallAssertCube
    \/ CallCoreVerifyCube
    \/ CallCoreAssertCube
    \/ CallGetCubePointIndexesOfDataset

SpecVerify == InitVerify /\ [][NextVerify]_vars

----------------------------------------------------------------------------
(* Claims about verify_cube and assert_cube *)

\* the values of the coordinate are not strictly increasing
NotIncreasing(coord_var) ==
    \E i \in 1..(Len(coord_var.values) - 1) :
        coord_var.values[i + 1] <= coord_var.values[i]

\* a value of the coordinate is below min_value or above max_value
OutOfRange(coord_var, min_value, max_value) ==
    \E i \in 1..Len(coord_var.values) :
        coord_var.values[i] < min_value \/ coord_var.values[i] > max_value

\* the dataset has a time coordinate that is not strictly increasing or not of
\* dtype datetime64, or a lat or lon coordinate with a value out of range
BadTimeOrLonLat ==
    \/ /\ "time" \in DOMAIN dataset.coords
       /\ \/ NotIncreasing(dataset.coords["time"])
          \/ dataset.coords["time"].dtype # "datetime64"
    \/ /\ {"lon", "lat"} \subseteq DOMAIN dataset.coords
       /\ \/ OutOfRange(dataset.coords["lat"], -90, 90)
          \/ OutOfRange(dataset.coords["lon"], -180, 180)

\* C23: verify_cube of xcube/core/verify.py reports that the time coordinate
\* is not monotonic increasing, that it is not datetime64, and that a lat or
\* lon coordinate is out of range, whenever that is the case, with or without
\* a bounds variable of the coordinate; and assert_cube raises ValueError for
\* every such dataset.
C23_TimeAndLonLatChecked ==
    /\ call.op = "core.verify_cube" =>
        /\ "time" \in DOMAIN dataset.coords =>
            /\ NotIncreasing(dataset.coords["time"]) =>
                   "values of coordinate variable must be monotonic increasing"
                       \in Range(ret.value)
            /\ dataset.coords["time"].dtype # "datetime64" =>
                   "type of coordinate variable must be datetime64" \in Range(ret.value)
        /\ ({"lon", "lat"} \subseteq DOMAIN dataset.coords
            /\ (\/ OutOfRange(dataset.coords["lat"], -90, 90)
                \/ OutOfRange(dataset.coords["lon"], -180, 180))) =>
               "values of coordinate variable must be in the range" \in Range(ret.value)
    /\ (call.op = "core.assert_cube" /\ BadTimeOrLonLat) =>
           (ret.status = "raised" /\ ret.exc = "ValueError")


\* one of the dimensions time, lat and lon is not in the dataset
MissingDimension == \E name \in {"time", "lat", "lon"} : name \notin DatasetDims(dataset)

\* C24: verify_cube of xcube/api.py returns a report for every dataset and
\* never raises; for a dataset without the dimension time, lat or lon the
\* report is not empty, and assert_cube raises ValueError for it.
C24_VerifyNeverRaises ==
    /\ call.op = "verify_cube" =>
           /\ ret.status = "ok"
           /\ MissingDimension => ret.value # <<>>
    /\ (call.op = "assert_cube" /\ MissingDimension) =>
           (ret.status = "raised" /\ ret.exc = "ValueError")

\* C30: verify_cube, of xcube/api.py and of xcube/core/verify.py, gives a
\* dataset without data variables a report that is not empty, assert_cube
\* accepts no such dataset, and get_cube_point_indexes, which asserts the
\* cube first, never fails with 'cube dataset is empty'.
C30_DataVariablesVerified ==
    /\ (call.op \in {"verify_cube", "core.verify_cube"} /\ ret.status = "ok"
        /\ Len(dataset.data_vars) = 0) => ret.value # <<>>
    /\ (call.op \in {"assert_cube", "core.assert_cube"} /\ ret.status = "ok") =>
           Len(dataset.data_vars) > 0
    /\ call.op = "get_cube_point_indexes" => ret.msg # "cube dataset is empty"

----------------------------------------------------------------------------
(* chunk_dataset of xcube/api.py.  A dataset is the sizes of its dimensions *)
(* and its variables; a variable has its dims, the chunk length of its data *)
(* along each of them and its encoding.  chunk_sizes is <<>> for None and   *)
(* <<mapping>> for a mapping from dimension names to chunk sizes.           *)

\* chunk_dataset with the shape of the variable in place of every chunk size
chunk_dataset_by_shape(ds, chunk_sizes, format_name) ==
    Returned([ds EXCEPT !.variables =
                 [var_name \in DOMAIN ds.variables |->
                     [ds.variables[var_name] EXCEPT !.encoding =
                         ("chunks" :> [i \in 1..Len(ds.variables[var_name].dims) |->
                                          ds.dims[ds.variables[var_name].dims[i]]]) @@ @]]])

\* lines 203-223: the re-chunked dataset with the encodings updated for the
\* format, or the ValueError of Dataset.chunk for a name that is no dimension
chunk_dataset(ds, chunk_sizes, format_name) ==
    LET chunks == IF chunk_sizes = <<>> THEN <<>> ELSE chunk_sizes[1]
        \* dataset.chunk(chunks=chunk_sizes) on one variable
        Chunked(var) ==
            [var EXCEPT !.chunks =
                [i \in 1..Len(var.dims) |->
                    IF var.dims[i] \in DOMAIN chunks
                    THEN IF chunks[var.dims[i]] < ds.dims[var.dims[i]]
                         THEN chunks[var.dims[i]] ELSE ds.dims[var.dims[i]]
                    ELSE IF chunk_sizes = <<>> \/ var.chunks = <<>>
                    THEN ds.dims[var.dims[i]]
                    ELSE var.chunks[i]]]
        chunk_sizes_attr_name ==
            IF format_name = "netcdf4" THEN "chunksizes"
            ELSE IF format_name = "zarr" THEN "chunks"
            ELSE ""
        sizes(var) ==
            [i \in 1..Len(var.dims) |->
                IF var.dims[i] \in DOMAIN chunks THEN chunks[var.dims[i]]
                ELSE ds.dims[var.dims[i]]]
        Encoded(var) ==
            IF chunk_sizes_attr_name = "" THEN var
            ELSE IF DOMAIN chunks # {}
            THEN [var EXCEPT !.encoding = (chunk_sizes_attr_name :> sizes(var)) @@ @]
            ELSE [var EXCEPT !.encoding =
                     [key \in DOMAIN @ \ {chunk_sizes_attr_name} |-> @[key]]]
    IN  IF \E dim_name \in DOMAIN chunks : dim_name \notin DOMAIN ds.dims
        THEN Raised("ValueError", "some chunks keys are not dimensions on this object",
                    <<>>, <<>>)
        ELSE Returned([ds EXCEPT !.variables =
                          [var_name \in DOMAIN ds.variables |->
                              Encoded(Chunked(ds.variables[var_name]))]])

----------------------------------------------------------------------------
(* Calls of chunk_dataset *)

ChunkDatasets ==
    LET Var(dims, chunks, encoding) ==
            [dims |-> dims, chunks |-> chunks, encoding |-> encoding]
        encodings == {<<>>,
                      [chunks |-> <<1, 1, 1>>],
                      [chunksizes |-> <<1, 1, 1>>, dtype |-> "float32"],
                      [chunks |-> <<1, 1, 1>>, chunksizes |-> <<2, 2, 2>>]}
    IN  {[dims |-> [time |-> 3, lat |-> 4, lon |-> 8, bnds |-> 2],
          variables |->
              [precipitation |-> Var(CubeDims, chunks, encoding),
               time_bnds |-> Var(<<"time", "bnds">>, <<>>, <<>>),
               time |-> Var(<<"time">>, <<>>, time_encoding),
               lat |-> Var(<<"lat">>, <<>>, <<>>),
               lon |-> Var(<<"lon">>, <<>>, <<>>),
               crs |-> Var(<<>>, <<>>, <<>>)]] :
            chunks \in {<<>>, <<1, 2, 2>>},
            encoding \in encodings,
            time_encoding \in {<<>>, [chunks |-> <<3>>, units |-> "days"]}}

ChunkSizes ==
    {<<>>, <<<<>>>>, <<[time |-> 1]>>, <<[time |-> 1, lat |-> 2, lon |-> 4]>>,
     <<[lat |-> 10]>>, <<[level |-> 2]>>}

InitChunk ==
    /\ dataset \in ChunkDatasets
    /\ call = NoCall
    /\ ret = NoRet
    /\ NoTiles

CallChunkDataset ==
    /\ call = NoCall
    /\ \E chunk_sizes \in ChunkSizes, format_name \in {"zarr", "netcdf4", "csv", "None"} :
           /\ call' = [op |-> "chunk_dataset", chunk_sizes |-> chunk_sizes,
                       format_name |-> format_name]
           /\ ret' = chunk_dataset(dataset, chunk_sizes, format_name)
    /\ UNCHANGED <<dataset, tile_vars>>

SpecChunk == InitChunk /\ [][CallChunkDataset]_vars

----------------------------------------------------------------------------
(* Claims about chunk_dataset *)

\* the encoding without the entry name
Without(encoding, name) == [key \in DOMAIN encoding \ {name} |-> encoding[key]]

\* the chunk sizes the claim expects in the encoding of the variable
ExpectedSizes(var) ==
    [i \in 1..Len(var.dims) |->
        IF var.dims[i] \in DOMAIN call.chunk_sizes[1]
        THEN call.chunk_sizes[1][var.dims[i]]
        ELSE dataset.dims[var.dims[i]]]

\* C25: chunk_dataset with chunk sizes and the format zarr (netcdf4) sets the
\* encoding entry 'chunks' ('chunksizes') of every variable of the result to
\* the tuple of the requested chunk size for each of its dimensions that is
\* named in chunk_sizes and of its length along each other dimension; without
\* chunk sizes it removes that entry; the other entries, and with another
\* format all entries, are those of the dataset passed.
C25_ChunkEncoding ==
    (call.op = "chunk_dataset" /\ ret.status = "ok") =>
        \A var_name \in DOMAIN dataset.variables :
            LET before == dataset.variables[var_name].encoding
                after == ret.value.variables[var_name].encoding
                name == IF call.format_name = "zarr" THEN "chunks" ELSE "chunksizes"
            IN  /\ DOMAIN ret.value.variables = DOMAIN dataset.variables
                /\ IF call.format_name \notin {"zarr", "netcdf4"}
                   THEN after = before
                   ELSE /\ Without(after, name) = Without(before, name)
                        /\ IF call.chunk_sizes # <<>> /\ call.chunk_sizes[1] # <<>>
                           THEN /\ name \in DOMAIN after
                                /\ after[name] = ExpectedSizes(dataset.variables[var_name])
                           ELSE name \notin DOMAIN after

C25_Witness ==
    /\ call.op = "chunk_dataset"
    /\ ret.status = "ok"
    /\ call.format_name = "zarr"
    /\ call.chunk_sizes = <<[time |-> 1]>>
    /\ dataset.variables["precipitation"].encoding = [chunks |-> <<1, 1, 1>>, chunksizes |-> <<2, 2, 2>>]
    /\ ret.value.variables["precipitation"].encoding = [chunks |-> <<1, 4, 8>>, chunksizes |-> <<2, 2, 2>>]
    /\ ret.value.variables["time_bnds"].encoding = [chunks |-> <<1, 2>>]

----------------------------------------------------------------------------
(* Calls of get_coord_indexes on further axes: date/time axes stored in     *)
(* decreasing order, with and without bounds, and numeric axes without      *)
(* bounds whose spacing grows or shrinks by a factor of 4                   *)

InitOtherAxes ==
    /\ dataset \in {[coords |-> [d \in {"x"} |-> cv], data_vars |-> <<>>] :
                        cv \in {CoordVar("datetime64", c, with_bounds, TRUE) :
                                    c \in AllCenterSeqs, with_bounds \in BOOLEAN}
                               \cup
                               {CoordVar(dtype, c, FALSE, FALSE) :
                                    dtype \in {"float64", "int64"},
                                    c \in {<<3, 5, 13>>, <<3, 11, 13>>, <<3, 5, 9>>}}}
    /\ call = NoCall
    /\ ret = NoRet
    /\ NoTiles

SpecOtherAxes == InitOtherAxes /\ [][CallGetCoordIndexes]_vars

----------------------------------------------------------------------------
(* Claims about the cell edges and about date/time axes in decreasing order *)

\* C26: without bounds, for an axis of size >= 2 with strictly increasing
\* centers the call succeeds with an edge array of size + 1 entries that is
\* strictly increasing, where edge[i] is center[i] minus half of the delta
\* to the next center, the last center using the delta before it, and the
\* last edge is the last center plus half of that delta.
C26_EdgesFromCenters ==
    (/\ IsCoordCall
     /\ ~HasBoundsVar(CalledVar)
     /\ Len(CalledVar.values) >= 2
     /\ \A i \in 1..(Len(CalledVar.values) - 1) :
            CalledVar.values[i] < CalledVar.values[i + 1]) =>
        LET c == CalledVar.values
            n == Len(c)
            edges == CoordsFromCenters(CalledVar.dtype, c, n)
            delta(i) == IF i < n THEN c[i + 1] - c[i] ELSE c[n] - c[n - 1]
        IN  /\ ret.status = "ok"
            /\ Len(edges) = n + 1
            /\ \A i \in 1..n : 2 * edges[i] = 2 * c[i] - delta(i)
            /\ 2 * edges[n + 1] = 2 * c[n] + delta(n)
            /\ \A i \in 1..n : edges[i] < edges[i + 1]

\* C27: for a date/time axis stored in decreasing order the sign test of
\* get_coord_indexes finds the axis reversed, and the call returns what it
\* returns for the float64 axis with the same values and bounds.
C27_ReversedDateTimeAxis ==
    (/\ IsCoordCall
     /\ CalledVar.dtype = "datetime64"
     /\ CalledVar.values[1] > CalledVar.values[Len(CalledVar.values)]) =>
        LET n == Len(CalledVar.values)
            numeric == [CalledVar EXCEPT
                           !.dtype = "float64",
                           !.bounds = IF @.present THEN [@ EXCEPT !.dtype = "float64"] ELSE @]
        IN  /\ IF HasBoundsVar(CalledVar)
               THEN IsNegativeDiff(CalledVar.dtype, CalledVar.bounds.values[1][2],
                                   CalledVar.bounds.values[1][1])
               ELSE IsNegativeDiff(CalledVar.dtype, CalledVar.values[n], CalledVar.values[1])
            /\ ret = get_coord_indexes([dataset EXCEPT !.coords[call.coord_var_name] = numeric],
                                       call.coord_var_name, call.coord_values,
                                       call.ret_fractions)

----------------------------------------------------------------------------
(* What a call of get_ml_dataset_tile does to the shared image cache,       *)
(* checked under SpecTile                                                   *)

\* the call k failed on the number of axes or on the number of labels
FailedOnAxesOrLabels(k) ==
    /\ ~Succeeded(k)
    /\ NumAxes(k) < 2 \/ ~LabelCountFits(k)

\* C29: a call with the identity image_id changes the image cache at most by
\* adding the entry of image_id: every entry the cache had before is there
\* after the call with the same image, and no entry but that of image_id is
\* new; a call that found its image in the cache leaves the cache as it was;
\* a call that fails on the number of axes or labels leaves the cache as it
\* was and has not loaded an array.
C29_CacheOnlyGrowsByOwnEntry ==
    \A k \in Calls :
        LET before == history[k].cache_before
            after == history[k].outcome.image_cache
            image_id == history[k].outcome.image_id
        IN  /\ after.present = before.present
            /\ \A other \in DOMAIN before.entries :
                   /\ other \in DOMAIN after.entries
                   /\ after.entries[other] = before.entries[other]
            /\ DOMAIN after.entries \subseteq DOMAIN before.entries \cup {image_id}
            /\ ReusedImage(k) => after = before
            /\ (NumAxes(k) < 2 \/ ~LabelCountFits(k)) =>
                   /\ FailedOnAxesOrLabels(k)
                   /\ after = before
                   /\ ~history[k].outcome.loaded

\* a first call added its image to a cache that held the image of another
\* user, and a second call with too few axes or a wrong number of labels
\* failed while the cache held both images
C29_Witness ==
    /\ Len(history) = 2
    /\ history[1].cache_before = SharedCache
    /\ Succeeded(1)
    /\ history[1].outcome.loaded
    /\ DOMAIN history[1].outcome.image_cache.entries
           = {"legend", history[1].outcome.image_id}
    /\ history[1].outcome.image_id # "legend"
    /\ FailedOnAxesOrLabels(2)
    /\ image_cache = history[1].outcome.image_cache

====
